---- MODULE Spec2Model ----
(***************************************************************************)
(* Offline/online synchronisation of the expense tracker: the persisted    *)
(* Local Store and 'sync-queue' (localforage), the remote store            *)
(* (supabase), the TransactionProvider and the DataProvider with their     *)
(* 'online'/'offline' handlers, their offline writes, their mount effects  *)
(* and their syncQueue drains.  An asynchronous function is a process: it  *)
(* waits at its remote calls, where other processes run; its localforage   *)
(* calls complete together with the step that issues them.                 *)
(***************************************************************************)
EXTENDS Integers, Sequences, FiniteSets, Bags, TLC

\* ------------------------------------------------------------------ bounds
MaxOps == 2        \* user writes issued in one behaviour
MaxFlips == 3      \* 'online'/'offline' events and restarts in one behaviour
MaxSteps == 4      \* user writes, events and restarts together in one behaviour
MaxRestarts == 1   \* process restarts in one behaviour
MaxFails == 1      \* remote calls that fail (error or throw) in one behaviour
MaxClock == 2      \* largest value Date.now() returns
MaxDrains == 3     \* syncQueue invocations that can be in flight together
MaxRefreshes == 2  \* refresh calls in a row from the user interface, per provider
\* logins that reach the insert of a session
MaxLogins == 2
\* tags added through handleAddBudgetTag
MaxAdds == 2

\* ------------------------------------------------------------- input sets
TxInputs == { [date |-> 1, category |-> "Food", payment_method |-> "Cash"] }
UpdateInputs == { [category |-> "Dining"] }
RenameInputs == { [field |-> "category", oldValue |-> "Food", newValue |-> "Dining"] }
CategoryInputs == { [name |-> "Rent", type |-> "expense"] }
PaymentInputs == { [name |-> "Card"] }
Kinds == {"category", "payment_method"}
\* a remote call returns { data }, returns { error }, or throws
Outcomes == {"ok", "error", "throw"}
\* refresh throws the error it is returned: a rejection ("error") and a
\* connectivity failure ("throw") both end in its catch
RefreshOutcomes == {"ok", "error", "throw"}

VARIABLES
  online,        \* navigator.onLine
  now,           \* last value returned by Date.now(), 0 before its first call
  ticked,        \* the clock has moved on since
  lsTx,          \* persisted "transactions"
  lsD,           \* persisted "categories" and "payment_methods"
  syncQ,         \* persisted "sync-queue"
  pendingTx,     \* setItem("transactions", ..) issued without await, not yet written
  rTx,           \* remote table transactions, in physical order
  rD,            \* remote tables categories and payment_methods, in physical order
  origin,        \* history: origin[n] tells what made the n-th server row
  epoch,         \* history: number of 'online' events so far
  transactions,  \* TransactionProvider state
  isConnected, isOffline, isSyncing,
  effDeps,       \* [isConnected, isOffline] as seen by the last run of the effect
  top,           \* the TransactionProvider operation in flight
  names,         \* DataProvider state: expenseCategories, incomeCategories, paymentMethods
  dIsOffline, dIsSyncing,
  dop,           \* the DataProvider operation in flight
  drain,         \* the syncQueue invocations in flight, of both providers
  calls,         \* history: the remote calls the syncQueue invocations have made
  ops, flips, restarts, fails,
  dropped,       \* the failures among fails that were connectivity failures (throws)
  ref,           \* the online-only TransactionProvider run on the same calls
  obs,           \* history: error field and remote calls of the offline-capable one
  auth,          \* AuthProvider with localStorage 'auth_session_token' and auth_sessions
  page           \* BudgetPage tags with the tag rows of categoriesbudget

clock == << now, ticked >>
persisted == << lsTx, lsD, syncQ >>
remote == << rTx, rD, origin >>
history == << calls >>
tpMem == << transactions, isConnected, isOffline, isSyncing, effDeps >>
dpMem == << names, dIsOffline, dIsSyncing >>
budget == << ops, flips, restarts, fails, dropped >>

vars == << online, now, ticked, lsTx, lsD, syncQ, pendingTx, rTx, rD, origin, epoch,
           transactions, isConnected, isOffline, isSyncing, effDeps, top,
           names, dIsOffline, dIsSyncing, dop, drain, calls,
           ops, flips, restarts, fails, dropped, ref, obs, auth, page >>

\* TransactionProvider, DataProvider and what they work on
app == << online, now, ticked, lsTx, lsD, syncQ, pendingTx, rTx, rD, origin, epoch,
          transactions, isConnected, isOffline, isSyncing, effDeps, top,
          names, dIsOffline, dIsSyncing, dop, drain, calls,
          ops, flips, restarts, fails, dropped, ref, obs >>

\* the online-only provider and what is recorded to compare it with
twin == << ref, obs >>

\* AuthProvider and BudgetPage, which share no state with the providers
pages == << auth, page >>
apart == << ref, obs, auth, page >>

\* the online-only provider with list shown and no call made yet: error null
RefStart(list) == [transactions |-> list, error |-> "null", issued |-> << >>]
NoObs == [error |-> "null", issued |-> << >>]

\* localStorage.getItem('auth_session_token') === null
NoToken == << >>
\* the n-th crypto.randomUUID() of generateSessionToken; 0: a session of another device
Token(n) == << "token", n >>

\* AuthProvider constructed, its mount effects not run yet: not logged in,
\* nothing stored, another device has a session. pc is the position of the
\* function in flight, arg its token, returned the function that returned last
AuthStart ==
  [isAuthenticated |-> FALSE, isLoading |-> TRUE, token |-> NoToken,
   sessions |-> {Token(0)}, toast |-> "none", minted |-> 0,
   pc |-> "mount", arg |-> NoToken, returned |-> "none"]

\* BudgetPage constructed, its mount effect not run yet, on an empty table.
\* rows: the tag rows of categoriesbudget (parent_id null); tagsTyped: the
\* local of the fetchAllData in flight; fetched, deletes, drag: history
PageStart ==
  [rows |-> {}, budgetTags |-> << >>, tagOrder |-> << >>, tagsTyped |-> << >>,
   toast |-> "none", nextId |-> 1, added |-> 0,
   pc |-> "mount", arg |-> << >>,
   fetched |-> FALSE, deletes |-> {}, drag |-> [names |-> {}, moved |-> FALSE]]

\* ----------------------------------------------------------------- helpers
\* Date.now(): the value of the last call again when the clock may not have
\* moved on since (two writes in one tick), or a later one
DateNow == {t \in now..(now + 1) : t <= MaxClock /\ (ticked => t > now)}

\* `offline-${Date.now()}`
TempId(prefix, t) == << prefix, t >>

\* gen_random_uuid(): the n-th identifier the remote store issues
ServerId(n) == << "srv", n >>

\* const { id, ...insertData } = action.data
StripId(d) == [f \in DOMAIN d \ {"id"} |-> d[f]]

\* { ...t, ...updates }
Merge(t, u) == [f \in DOMAIN t \cup DOMAIN u |-> IF f \in DOMAIN u THEN u[f] ELSE t[f]]

\* list.filter(t => t.id !== id)
Without(list, id) == SelectSeq(list, LAMBDA t : t.id # id)

\* list.map(t => t.id === id ? { ...t, ...updates } : t)
MapUpdate(list, id, u) ==
  [k \in 1..Len(list) |-> IF list[k].id = id THEN Merge(list[k], u) ELSE list[k]]

\* list.map(t => t[field] === oldValue ? { ...t, [field]: newValue } : t)
MapRename(list, field, oldValue, newValue) ==
  [k \in 1..Len(list) |->
     IF list[k][field] = oldValue
       THEN [list[k] EXCEPT ![field] = newValue]
       ELSE list[k]]

\* .order('date', { ascending: false }): rows by date, latest first; rows of
\* one date stay in physical order
RECURSIVE OrderByDateDesc(_)
OrderByDateDesc(rows) ==
  IF rows = << >> THEN << >>
  ELSE LET top_ == CHOOSE k \in 1..Len(rows) :
                     \A j \in 1..Len(rows) :
                        \/ rows[j].date < rows[k].date
                        \/ (rows[j].date = rows[k].date /\ j >= k)
           rest == [j \in 1..(Len(rows) - 1) |-> IF j < top_ THEN rows[j] ELSE rows[j + 1]]
       IN  << rows[top_] >> \o OrderByDateDesc(rest)

\* supabase.from('transactions').select('*').order('date', { ascending: false })
SelectTransactions == OrderByDateDesc(rTx)

\* the remote table accepts a row only when it has the table's columns
ValidTx(p) == DOMAIN p = {"date", "category", "payment_method"}

\* ----------------------------------------------------- queue (utils.ts)
\* a queue that takes the new action at its head (queue.unshift(action))
PushedAtHead(queue, action) == << action >> \o queue

\* addToQueue: queue.push(action); setItem("sync-queue", queue)
Pushed(queue, action) == Append(queue, action)

\* clearQueue: setItem("sync-queue", [])
Cleared == << >>

\* action.entity (absent in the entries TransactionProvider writes)
Entity(a) == IF "entity" \in DOMAIN a THEN a.entity ELSE "undefined"

\* the remote store answers o to a request it finds valid or not: it rejects
\* an invalid request with an error result; a throw, and an error result for
\* a valid request, are failures counted against MaxFails, with one more
\* after each restart (so that both requests of a mount can fail)
Answers(o, valid) ==
  LET failure == o = "throw" \/ (o = "error" /\ valid)
  IN  /\ o = "ok" => valid
      /\ failure => fails < MaxFails + restarts
      /\ fails' = IF failure THEN fails + 1 ELSE fails
      /\ dropped' = IF o = "throw" THEN dropped + 1 ELSE dropped

\* history: the remote call of entry d.i of a syncQueue invocation returned with o
Called(d, o) ==
  [prov |-> d.prov, ep |-> d.ep, idx |-> d.i, entry |-> d.queue[d.i], res |-> o]

\* the deps of the effect as the last render left them differ from those it last ran with
EffectDue == << isConnected, isOffline >> # effDeps

\* nothing urgent is due: a write that is on its way to the store arrives
\* before anything else is served, and an effect that is due runs before any
\* remote call returns or another event is handled
Calm == pendingTx = << >> /\ ~EffectDue

\* ---------------------------------------------------------------- processes
\* The remote calls are where an operation waits and others run.  The
\* localforage calls of a function complete together with the call or the
\* remote return that precedes them, but for the clearQueue() of a syncQueue
\* that had no remote call to make: it is a step of its own, so that another
\* syncQueue can read the queue before it is cleared.
\* drain is the bag of the syncQueue invocations in flight.
IdleOp == [pc |-> "idle"]
IdleDrain == [pc |-> "idle"]

InFlight == BagToSet(drain)
Put(b, d) == IF d.pc = "idle" THEN b ELSE b (+) SetToBag({d})
Take(b, d) == b (-) SetToBag({d})

\* does the loop of syncQueue await a remote call for this entry?
\* TransactionProvider dispatches on action.type alone, DataProvider on
\* action.entity and then on action.type
Awaits(prov, a) ==
  IF prov = "tp"
    THEN a.type \in {"add", "update", "delete"}
    ELSE Entity(a) \in Kinds /\ a.type \in {"add", "delete"}

\* the first entry at or after i for which the loop awaits, Len+1 if none
RECURSIVE NextAwait(_, _, _)
NextAwait(prov, queue, i) ==
  IF i > Len(queue) THEN i
  ELSE IF Awaits(prov, queue[i]) THEN i
  ELSE NextAwait(prov, queue, i + 1)

\* for (const action of queue): run on from entry i to the next remote call;
\* pc "end" when the loop is over
Advance(d, i) ==
  LET j == NextAwait(d.prov, d.queue, i)
  IN  IF j > Len(d.queue)
        THEN [pc |-> "end", prov |-> d.prov, queue |-> d.queue, ep |-> d.ep]
        ELSE [d EXCEPT !.i = j]

\* syncQueue() from its call to the first remote call: the local collections
\* and the queue are read
Started(prov, loc, queue, ep) ==
  Advance([pc |-> "call", prov |-> prov, loc |-> loc, queue |-> queue, i |-> 0,
           ep |-> ep], 1)

\* what the functions of both providers read and write besides the remote
\* store: the persisted store and the React state
Mem ==
  [syncQ |-> syncQ, lsTx |-> lsTx, pendingTx |-> pendingTx, lsD |-> lsD,
   transactions |-> transactions, isConnected |-> isConnected,
   isOffline |-> isOffline, isSyncing |-> isSyncing,
   names |-> names, dIsOffline |-> dIsOffline, dIsSyncing |-> dIsSyncing]

Commit(m) ==
  /\ syncQ' = m.syncQ
  /\ lsTx' = m.lsTx
  /\ pendingTx' = m.pendingTx
  /\ lsD' = m.lsD
  /\ transactions' = m.transactions
  /\ isConnected' = m.isConnected
  /\ isOffline' = m.isOffline
  /\ isSyncing' = m.isSyncing
  /\ names' = m.names
  /\ dIsOffline' = m.dIsOffline
  /\ dIsSyncing' = m.dIsSyncing

\* getItem("transactions")
GetTx(m) == IF m.pendingTx # << >> THEN m.pendingTx[1] ELSE m.lsTx

\* await setItem("transactions", v)
SetTx(m, v) == [m EXCEPT !.lsTx = v, !.pendingTx = << >>]

\* setItem("transactions", v) without await: the write is on its way
SetTxNoAwait(m, v) == [m EXCEPT !.lsTx = GetTx(m), !.pendingTx = << v >>]

\* addToQueue(action): read "sync-queue", push, write it back
AddToQueue(m, action) == [m EXCEPT !.syncQ = Pushed(m.syncQ, action)]

\* clearQueue()
ClearQueue(m) == [m EXCEPT !.syncQ = Cleared]

\* ------------------------------------------- TransactionProvider: refresh
\* an offline refresh that shows nothing
RefreshLocalEmpty(m) ==
  [m EXCEPT !.transactions = << >>, !.isConnected = FALSE, !.isOffline = TRUE]

\* refreshTransactions, offline branch
RefreshLocal(m) ==
  [m EXCEPT !.transactions = GetTx(m), !.isConnected = FALSE, !.isOffline = TRUE]

\* a refresh that shows nothing when its select fails
RefreshRemoteClearing(m, o) ==
  IF o = "ok"
    THEN [SetTxNoAwait(m, SelectTransactions) EXCEPT
            !.transactions = SelectTransactions,
            !.isConnected = TRUE, !.isOffline = FALSE]
    ELSE [m EXCEPT !.transactions = << >>, !.isConnected = FALSE, !.isOffline = TRUE]

\* a refresh whose catch writes isConnected alone, as the online-only
\* provider's does
RefreshRemoteOneFlag(m, o) ==
  IF o = "ok"
    THEN [SetTxNoAwait(m, SelectTransactions) EXCEPT
            !.transactions = SelectTransactions,
            !.isConnected = TRUE, !.isOffline = FALSE]
    ELSE [m EXCEPT !.isConnected = FALSE]

\* a refresh that adds the rows it selected to those it shows
RefreshRemoteAppending(m, o) ==
  IF o = "ok"
    THEN [SetTxNoAwait(m, GetTx(m) \o SelectTransactions) EXCEPT
            !.transactions = m.transactions \o SelectTransactions,
            !.isConnected = TRUE, !.isOffline = FALSE]
    ELSE [m EXCEPT !.isConnected = FALSE, !.isOffline = TRUE]

\* refreshTransactions, online branch, once the select has returned (o)
RefreshRemote(m, o) ==
  IF o = "ok"
    THEN [SetTxNoAwait(m, SelectTransactions) EXCEPT
            !.transactions = SelectTransactions,
            !.isConnected = TRUE, !.isOffline = FALSE]
    ELSE [m EXCEPT !.isConnected = FALSE, !.isOffline = TRUE]

\* ----------------------------------------- TransactionProvider: syncQueue
\* after the loop moved on: at the next remote call, or past the last entry,
\* where clearQueue() and refreshTransactions() follow; on tells navigator.onLine
TpFinish(m, on) ==
  IF on THEN [m |-> ClearQueue(m), d |-> [pc |-> "rfRemote", prov |-> "tp"]]
  ELSE [m |-> [RefreshLocal(ClearQueue(m)) EXCEPT !.isSyncing = FALSE], d |-> IdleDrain]

TpContinue(m, d, on) == IF d.pc = "call" THEN [m |-> m, d |-> d] ELSE TpFinish(m, on)

\* syncQueue() is called: setIsSyncing(true), the reads, the loop up to its
\* first remote call
TpSyncQueue(m, ep) ==
  [m |-> [m EXCEPT !.isSyncing = TRUE], d |-> Started("tp", GetTx(m), m.syncQ, ep)]

\* the row the remote insert returns for the n-th row it stores
Inserted(payload, n) == Merge(payload, [id |-> ServerId(n)])

\* add branch, insert succeeded: the offline entity gives way to the server row
TpReplaced(localTx, id, data) == << data >> \o Without(localTx, id)

\* the remote call of entry i returns with o, or throws
TpCall(d, o) ==
  LET a == d.queue[d.i]
      m == Mem
      next == Advance(d, d.i + 1)
  IN
  /\ Calm
  /\ d.pc = "call"
  /\ d.prov = "tp"
  /\ Answers(o, a.type = "add" => ValidTx(StripId(a.data)))
  /\ calls' = calls \cup {Called(d, o)}
  /\ IF o = "throw"
       THEN /\ Commit([m EXCEPT !.isSyncing = FALSE])
            /\ drain' = Take(drain, d)
            /\ UNCHANGED remote
       ELSE
         CASE a.type = "add" ->
                IF o = "ok"
                  THEN LET data == Inserted(StripId(a.data), Len(origin) + 1)
                           localTx == TpReplaced(d.loc, a.data.id, data)
                           r == TpContinue(SetTx([m EXCEPT !.transactions = localTx], localTx),
                                           Advance([d EXCEPT !.loc = localTx], d.i + 1), online)
                       IN  /\ rTx' = Append(rTx, data)
                           /\ origin' = Append(origin, [table |-> "transactions",
                                                        temp |-> a.data.id, ep |-> d.ep,
                                                        idx |-> d.i])
                           /\ Commit(r.m)
                           /\ drain' = Put(Take(drain, d), r.d)
                           /\ UNCHANGED rD
                  ELSE LET r == TpContinue(m, next, online)
                       IN  /\ Commit(r.m)
                           /\ drain' = Put(Take(drain, d), r.d)
                           /\ UNCHANGED remote
           [] a.type = "update" ->
                LET r == TpContinue(m, next, online)
                IN  /\ rTx' = IF o = "ok" THEN MapUpdate(rTx, a.id, a.data) ELSE rTx
                    /\ Commit(r.m)
                    /\ drain' = Put(Take(drain, d), r.d)
                    /\ UNCHANGED << rD, origin >>
           [] a.type = "delete" ->
                LET r == TpContinue(m, next, online)
                IN  /\ rTx' = IF o = "ok" THEN Without(rTx, a.id) ELSE rTx
                    /\ Commit(r.m)
                    /\ drain' = Put(Take(drain, d), r.d)
                    /\ UNCHANGED << rD, origin >>
  /\ UNCHANGED << online, now, epoch, effDeps, top, dop, ops, flips, restarts >>
  /\ ticked' = TRUE

\* a syncQueue that does not reset isSyncing after its refresh
TpRefreshRemoteSyncing(d, o) ==
  /\ Calm
  /\ Answers(o, TRUE)
  /\ d.pc = "rfRemote"
  /\ d.prov = "tp"
  /\ Commit(RefreshRemote(Mem, o))
  /\ drain' = Take(drain, d)
  /\ UNCHANGED << online, now, remote, epoch, effDeps, top, dop, ops, flips, restarts >>
  /\ UNCHANGED history
  /\ ticked' = TRUE

\* await refreshTransactions() at the end of syncQueue, online branch
TpRefreshRemote(d, o) ==
  /\ Calm
  /\ Answers(o, TRUE)
  /\ d.pc = "rfRemote"
  /\ d.prov = "tp"
  /\ Commit([RefreshRemote(Mem, o) EXCEPT !.isSyncing = FALSE])
  /\ drain' = Take(drain, d)
  /\ UNCHANGED << online, now, remote, epoch, effDeps, top, dop, ops, flips, restarts >>
  /\ UNCHANGED history
  /\ ticked' = TRUE

\* the write of the setItem that refreshTransactions did not await is done
FlushPending ==
  /\ pendingTx # << >>
  /\ lsTx' = pendingTx[1]
  /\ pendingTx' = << >>
  /\ UNCHANGED << online, clock, lsD, syncQ, remote, epoch, tpMem, top, dpMem, dop,
                  drain, budget >>
  /\ UNCHANGED history

\* ------------------------------------------------- DataProvider: refresh
\* list.filter(c => c.type === type).map(c => c.name)
NamesOfType(cats, type) ==
  LET sel == SelectSeq(cats, LAMBDA c : c.type = type)
  IN  [k \in 1..Len(sel) |-> sel[k].name]

\* setExpenseCategories, setIncomeCategories, setPaymentMethods from the rows
NamesOf(cats, pays) ==
  [expense |-> NamesOfType(cats, "expense"),
   income |-> NamesOfType(cats, "income"),
   payment |-> [k \in 1..Len(pays) |-> pays[k].name]]

\* refreshData, offline branch
DpRefreshLocal(m) ==
  [m EXCEPT !.names = NamesOf(m.lsD.category, m.lsD.payment_method),
            !.dIsOffline = TRUE]

\* refreshData, online branch, once the selects have returned (o); every row
\* has the default "order" 0, so order('order') keeps the physical order
DpRefreshRemote(m, o) ==
  IF o = "ok"
    THEN [m EXCEPT !.names = NamesOf(rD.category, rD.payment_method),
                   !.lsD = rD, !.dIsOffline = FALSE]
    ELSE [m EXCEPT !.dIsOffline = TRUE]

\* ------------------------------------------------ DataProvider: syncQueue
\* as TpContinue, with clearQueue() and refreshData() past the last entry
DpFinish(m, on) ==
  IF on THEN [m |-> ClearQueue(m), d |-> [pc |-> "rfRemote", prov |-> "dp"]]
  ELSE [m |-> [DpRefreshLocal(ClearQueue(m)) EXCEPT !.dIsSyncing = FALSE], d |-> IdleDrain]

DpContinue(m, d, on) == IF d.pc = "call" THEN [m |-> m, d |-> d] ELSE DpFinish(m, on)

\* syncQueue() is called: setIsSyncing(true), the reads, the loop up to its
\* first remote call
DpSyncQueue(m, ep) ==
  [m |-> [m EXCEPT !.dIsSyncing = TRUE], d |-> Started("dp", m.lsD, m.syncQ, ep)]

\* add branch, insert succeeded
DpReplaced(local, id, data) == Append(Without(local, id), data)

\* payment_methods.name is UNIQUE
Accepts(kind, payload) ==
  kind = "payment_method" =>
    \A k \in 1..Len(rD.payment_method) : rD.payment_method[k].name # payload.name

\* the remote call of entry i returns with o, or throws
DpCall(d, o) ==
  LET a == d.queue[d.i]
      k == a.entity
      m == Mem
      next == Advance(d, d.i + 1)
  IN
  /\ Calm
  /\ d.pc = "call"
  /\ d.prov = "dp"
  /\ Answers(o, a.type = "add" => Accepts(k, StripId(a.data)))
  /\ calls' = calls \cup {Called(d, o)}
  /\ IF o = "throw"
       THEN /\ Commit([m EXCEPT !.dIsSyncing = FALSE])
            /\ drain' = Take(drain, d)
            /\ UNCHANGED remote
       ELSE
         CASE a.type = "add" ->
                IF o = "ok"
                  THEN LET data == Inserted(StripId(a.data), Len(origin) + 1)
                           local == DpReplaced(d.loc[k], a.data.id, data)
                           r == DpContinue([m EXCEPT !.lsD[k] = local],
                                           Advance([d EXCEPT !.loc[k] = local], d.i + 1), online)
                       IN  /\ rD' = [rD EXCEPT ![k] = Append(@, data)]
                           /\ origin' = Append(origin, [table |-> k, temp |-> a.data.id,
                                                        ep |-> d.ep, idx |-> d.i])
                           /\ Commit(r.m)
                           /\ drain' = Put(Take(drain, d), r.d)
                           /\ UNCHANGED rTx
                  ELSE LET r == DpContinue(m, next, online)
                       IN  /\ Commit(r.m)
                           /\ drain' = Put(Take(drain, d), r.d)
                           /\ UNCHANGED remote
           [] a.type = "delete" ->
                LET local == Without(d.loc[k], a.id)
                    r == DpContinue([m EXCEPT !.lsD[k] = local],
                                    Advance([d EXCEPT !.loc[k] = local], d.i + 1), online)
                IN  /\ rD' = IF o = "ok" THEN [rD EXCEPT ![k] = Without(@, a.id)] ELSE rD
                    /\ Commit(r.m)
                    /\ drain' = Put(Take(drain, d), r.d)
                    /\ UNCHANGED << rTx, origin >>
  /\ UNCHANGED << online, now, epoch, effDeps, top, dop, ops, flips, restarts >>
  /\ ticked' = TRUE

\* await refreshData() at the end of syncQueue, online branch
DpRefreshRemoteStep(d, o) ==
  /\ Calm
  /\ Answers(o, TRUE)
  /\ d.pc = "rfRemote"
  /\ d.prov = "dp"
  /\ Commit([DpRefreshRemote(Mem, o) EXCEPT !.dIsSyncing = FALSE])
  /\ drain' = Take(drain, d)
  /\ UNCHANGED << online, now, remote, epoch, effDeps, top, dop, ops, flips, restarts >>
  /\ UNCHANGED history
  /\ ticked' = TRUE

\* ------------------------------------------- TransactionProvider: writes
\* addTransaction, offline branch
AddTransactionOffline(m, p, t) ==
  LET localTx == GetTx(m)
      newTx == Merge(p, [id |-> TempId("offline", t)])
      m1 == AddToQueue(SetTx(m, << newTx >> \o localTx), [type |-> "add", data |-> newTx])
  IN  [m1 EXCEPT !.transactions = << newTx >> \o localTx]

\* a removeTransaction that patches the Local Store and queues nothing
RemoveTransactionUnqueued(m, id) ==
  LET localTx == GetTx(m)
  IN  [SetTx(m, Without(localTx, id)) EXCEPT !.transactions = Without(localTx, id)]

\* removeTransaction, offline branch
RemoveTransactionOffline(m, id) ==
  LET localTx == GetTx(m)
      m1 == AddToQueue(SetTx(m, Without(localTx, id)), [type |-> "delete", id |-> id])
  IN  [m1 EXCEPT !.transactions = Without(localTx, id)]

\* updateTransaction, offline branch
UpdateTransactionOffline(m, id, updates) ==
  LET localTx == GetTx(m)
      updatedTx == MapUpdate(localTx, id, updates)
      m1 == AddToQueue(SetTx(m, updatedTx), [type |-> "update", id |-> id, data |-> updates])
  IN  [m1 EXCEPT !.transactions = updatedTx]

\* bulkRenameInTransactions, offline branch
BulkRenameOffline(m, r) ==
  LET localTx == GetTx(m)
      updatedTx == MapRename(localTx, r.field, r.oldValue, r.newValue)
      m1 == AddToQueue(SetTx(m, updatedTx),
                       [type |-> "bulkRename", field |-> r.field,
                        oldValue |-> r.oldValue, newValue |-> r.newValue])
  IN  [m1 EXCEPT !.transactions = updatedTx]

\* the identifiers the caller can name: those of the entities it is shown
ShownIds == {transactions[k].id : k \in 1..Len(transactions)}

\* a transaction write is called while navigator.onLine is false
TpWriteOffline ==
  /\ Calm
  /\ ~online
  /\ ops < MaxOps
  /\ ops + flips < MaxSteps
  /\ \/ \E p \in TxInputs, t \in DateNow :
          Commit(AddTransactionOffline(Mem, p, t)) /\ now' = t /\ ticked' = FALSE
     \/ \E id \in ShownIds : Commit(RemoveTransactionOffline(Mem, id)) /\ UNCHANGED clock
     \/ \E id \in ShownIds, u \in UpdateInputs :
          Commit(UpdateTransactionOffline(Mem, id, u)) /\ UNCHANGED clock
     \/ \E r \in RenameInputs : Commit(BulkRenameOffline(Mem, r)) /\ UNCHANGED clock
  /\ ops' = ops + 1
  /\ UNCHANGED << online, remote, epoch, effDeps, top, dop, drain, flips, restarts, fails, dropped >>
  /\ UNCHANGED history

\* refreshTransactions called on mount, online branch: the select returns
TopRefreshRemote(o) ==
  /\ Calm
  /\ Answers(o, TRUE)
  /\ top.pc = "rfRemote"
  /\ Commit(RefreshRemote(Mem, o))
  /\ top' = IdleOp
  /\ UNCHANGED << online, now, remote, epoch, effDeps, dop, drain, ops, flips, restarts >>
  /\ UNCHANGED history
  /\ ticked' = TRUE

\* ------------------------------- TransactionProvider: writes called online
\* the request of a write, as the entry its offline branch would queue, an
\* add without id
TxWrites ==
  {[type |-> "add", data |-> p] : p \in TxInputs}
    \cup {[type |-> "delete", id |-> id] : id \in ShownIds}
    \cup {[type |-> "update", id |-> id, data |-> u] : id \in ShownIds, u \in UpdateInputs}
    \cup {[type |-> "bulkRename", field |-> r.field, oldValue |-> r.oldValue,
           newValue |-> r.newValue] : r \in RenameInputs}

\* the remote store finds the request of w valid: an insert needs the
\* table's columns, and .update(...).eq('id', id).select().single() needs
\* its one row
ValidWrite(w) ==
  CASE w.type = "add" -> ValidTx(w.data)
    [] w.type = "update" -> \E k \in 1..Len(rTx) : rTx[k].id = w.id
    [] OTHER -> TRUE

\* the remote table once the request of w is served; n numbers the row an
\* insert stores
RemoteWritten(w, n) ==
  CASE w.type = "add" -> Append(rTx, Inserted(w.data, n))
    [] w.type = "delete" -> Without(rTx, w.id)
    [] w.type = "update" -> MapUpdate(rTx, w.id, w.data)
    [] w.type = "bulkRename" -> MapRename(rTx, w.field, w.oldValue, w.newValue)

\* the online branch after its remote call returned without error: the
\* in-memory list and the Local Store are patched
TpWriteApplied(m, w, n) ==
  LET localTx == GetTx(m)
  IN  CASE w.type = "add" ->
             LET data == Inserted(w.data, n)
             IN  [SetTx(m, << data >> \o localTx) EXCEPT
                    !.transactions = << data >> \o m.transactions]
        [] w.type = "delete" ->
             [SetTx(m, Without(localTx, w.id)) EXCEPT
                !.transactions = Without(m.transactions, w.id)]
        [] w.type = "update" ->
             [SetTx(m, MapUpdate(localTx, w.id, w.data)) EXCEPT
                !.transactions = MapUpdate(m.transactions, w.id, w.data)]
        [] w.type = "bulkRename" ->
             LET updatedTx == MapRename(localTx, w.field, w.oldValue, w.newValue)
             IN  [SetTx(m, updatedTx) EXCEPT !.transactions = updatedTx]

\* a write that patches whatever the remote call returned
TpWriteDoneUnchecked(m, w, n, o) == TpWriteApplied(m, w, n)

\* the online branch from the return of its remote call: `if (supabaseError)
\* throw supabaseError`, and the catch rethrows after setError
TpWriteDone(m, w, n, o) == IF o = "ok" THEN TpWriteApplied(m, w, n) ELSE m

\* a transaction write is called while navigator.onLine is true: the remote
\* call is issued
TpWriteOnline ==
  /\ Calm
  /\ online
  /\ top.pc = "idle"
  /\ ops < MaxOps
  /\ ops + flips < MaxSteps
  /\ \E w \in TxWrites : top' = [pc |-> "write", w |-> w]
  /\ ops' = ops + 1
  /\ UNCHANGED << online, clock, persisted, pendingTx, remote, epoch, tpMem,
                  dpMem, dop, drain, flips, restarts, fails, dropped >>
  /\ UNCHANGED history

\* the remote store serves the request of the write, or rejects it, or the
\* call fails on its way (o): the response is on its way back
TpWriteServed(o) ==
  LET w == top.w
      n == Len(origin) + 1
  IN
  /\ Calm
  /\ top.pc = "write"
  /\ Answers(o, ValidWrite(w))
  /\ rTx' = IF o = "ok" THEN RemoteWritten(w, n) ELSE rTx
  /\ origin' = IF o = "ok" /\ w.type = "add"
                 THEN Append(origin, [table |-> "transactions", temp |-> << "online", n >>,
                                      ep |-> -1, idx |-> n])
                 ELSE origin
  /\ top' = [pc |-> "served", w |-> w, res |-> o, n |-> n]
  /\ UNCHANGED << online, now, persisted, pendingTx, rD, epoch, tpMem, dpMem, dop, drain,
                  ops, flips, restarts >>
  /\ UNCHANGED history
  /\ ticked' = TRUE

\* the await of the remote call returns, or throws: the online branch runs
\* to its end and the promise of the write is resolved or rejected
TpWriteReturn ==
  /\ Calm
  /\ top.pc = "served"
  /\ Commit(TpWriteDone(Mem, top.w, top.n, top.res))
  /\ top' = [pc |-> "idle", settled |-> IF top.res = "ok" THEN "resolved" ELSE "rejected",
             error |-> top.res # "ok"]
  /\ UNCHANGED << online, now, remote, epoch, effDeps, dop, drain, budget >>
  /\ UNCHANGED history
  /\ ticked' = TRUE

\* -------------------------------------------------- DataProvider: writes
\* list.includes(x)
Includes(list, x) == \E k \in 1..Len(list) : list[k] = x

\* list.find(pred): the first index with a row of that name (and type), 0 if none
FindRow(list, c) ==
  LET hits == {k \in 1..Len(list) : \A f \in DOMAIN c : list[k][f] = c[f]}
  IN  IF hits = {} THEN 0 ELSE CHOOSE k \in hits : \A j \in hits : k <= j

NamesKey(kind, c) == IF kind = "category" THEN c.type ELSE "payment"
IdPrefix(kind) == IF kind = "category" THEN "offline-cat" ELSE "offline-pay"

\* addExpenseCategory, addIncomeCategory, addPaymentMethod, offline branch
AddDataOffline(m, kind, c, t) ==
  LET row == Merge(c, [id |-> TempId(IdPrefix(kind), t)])
      m1 == AddToQueue([m EXCEPT !.lsD[kind] = Append(@, row)],
                       [entity |-> kind, type |-> "add", data |-> row])
  IN  [m1 EXCEPT !.names[NamesKey(kind, c)] = Append(@, c.name)]

\* removeExpenseCategory, removeIncomeCategory, removePaymentMethod, offline branch
RemoveDataOffline(m, kind, c) ==
  LET local == m.lsD[kind]
      k == FindRow(local, c)
      m1 == IF k = 0 THEN m
            ELSE AddToQueue([m EXCEPT !.lsD[kind] = Without(local, local[k].id)],
                            [entity |-> kind, type |-> "delete", id |-> local[k].id])
  IN  [m1 EXCEPT !.names[NamesKey(kind, c)] = SelectSeq(@, LAMBDA n : n # c.name)]

DataInputs(kind) == IF kind = "category" THEN CategoryInputs ELSE PaymentInputs

\* a category or payment-method write is called while navigator.onLine is false
DpWriteOffline ==
  /\ Calm
  /\ ~online
  /\ ops < MaxOps
  /\ ops + flips < MaxSteps
  /\ \/ \E kind \in Kinds : \E c \in DataInputs(kind), t \in DateNow :
          /\ ~Includes(names[NamesKey(kind, c)], c.name)
          /\ Commit(AddDataOffline(Mem, kind, c, t))
          /\ now' = t
          /\ ticked' = FALSE
     \/ \E kind \in Kinds : \E c \in DataInputs(kind) :
          /\ Commit(RemoveDataOffline(Mem, kind, c))
          /\ UNCHANGED clock
  /\ ops' = ops + 1
  /\ UNCHANGED << online, remote, epoch, effDeps, top, dop, drain, flips, restarts, fails, dropped >>
  /\ UNCHANGED history

\* refreshData called on mount, online branch: the selects return
DopRefreshRemote(o) ==
  /\ Calm
  /\ Answers(o, TRUE)
  /\ dop.pc = "rfRemote"
  /\ Commit(DpRefreshRemote(Mem, o))
  /\ dop' = IdleOp
  /\ UNCHANGED << online, now, remote, epoch, effDeps, top, drain, ops, flips, restarts >>
  /\ UNCHANGED history
  /\ ticked' = TRUE

\* --------------------------------------- DataProvider: writes called online
\* the request of a write: the add functions return at once on a name that
\* is shown already
DataWrites ==
  UNION {{[entity |-> kind, type |-> "add", data |-> c] :
            c \in {x \in DataInputs(kind) : ~Includes(names[NamesKey(kind, x)], x.name)}}
           \cup {[entity |-> kind, type |-> "delete", data |-> c] : c \in DataInputs(kind)} :
         kind \in Kinds}

\* list.filter(c => !(c.name === name && c.type === type)), and for payment
\* methods list.filter(p => p.name !== name)
WithoutNamed(list, c) ==
  SelectSeq(list, LAMBDA row : \E f \in DOMAIN c : row[f] # c[f])

\* the remote tables once the request of w is served: .insert([...]) or
\* .delete().eq('name', name) (and .eq('type', type) for a category)
RemoteDataWritten(w, n) ==
  IF w.type = "add"
    THEN [rD EXCEPT ![w.entity] = Append(@, Inserted(w.data, n))]
    ELSE [rD EXCEPT ![w.entity] = WithoutNamed(@, w.data)]

\* the online branch after its remote call returned without error: the
\* Local Store and the list of names are patched
DpWriteApplied(m, w, n) ==
  IF w.type = "add"
    THEN [m EXCEPT !.lsD[w.entity] = Append(@, Inserted(w.data, n)),
                   !.names[NamesKey(w.entity, w.data)] = Append(@, w.data.name)]
    ELSE [m EXCEPT !.lsD[w.entity] = WithoutNamed(@, w.data),
                   !.names[NamesKey(w.entity, w.data)] =
                      SelectSeq(@, LAMBDA x : x # w.data.name)]

\* the online branch from the return of its remote call: `if (supabaseError)
\* throw supabaseError`, caught by the function's own catch
DpWriteDone(m, w, n, o) == IF o = "ok" THEN DpWriteApplied(m, w, n) ELSE m

\* a category or payment-method write is called while navigator.onLine is
\* true: the remote call is issued
DpWriteOnline ==
  /\ Calm
  /\ online
  /\ dop.pc = "idle"
  /\ ops < MaxOps
  /\ ops + flips < MaxSteps
  /\ \E w \in DataWrites : dop' = [pc |-> "write", w |-> w]
  /\ ops' = ops + 1
  /\ UNCHANGED << online, clock, persisted, pendingTx, remote, epoch, tpMem,
                  dpMem, top, drain, flips, restarts, fails, dropped >>
  /\ UNCHANGED history

\* the remote store serves the request of the write, or rejects it, or the
\* call fails on its way (o): the response is on its way back
DpWriteServed(o) ==
  LET w == dop.w
      n == Len(origin) + 1
  IN
  /\ Calm
  /\ dop.pc = "write"
  /\ Answers(o, w.type = "add" => Accepts(w.entity, w.data))
  /\ rD' = IF o = "ok" THEN RemoteDataWritten(w, n) ELSE rD
  /\ origin' = IF o = "ok" /\ w.type = "add"
                 THEN Append(origin, [table |-> w.entity, temp |-> << "online", n >>,
                                      ep |-> -1, idx |-> n])
                 ELSE origin
  /\ dop' = [pc |-> "served", w |-> w, res |-> o, n |-> n]
  /\ UNCHANGED << online, now, persisted, pendingTx, rTx, epoch, tpMem, dpMem, top, drain,
                  ops, flips, restarts >>
  /\ UNCHANGED history
  /\ ticked' = TRUE

\* the await of the remote call returns, or throws: the online branch runs
\* to its end; the catch calls setError and nothing else, so the promise of
\* the write is resolved whatever the remote call returned
DpWriteReturn ==
  /\ Calm
  /\ dop.pc = "served"
  /\ Commit(DpWriteDone(Mem, dop.w, dop.n, dop.res))
  /\ dop' = [pc |-> "idle", settled |-> "resolved", error |-> dop.res # "ok"]
  /\ UNCHANGED << online, now, remote, epoch, effDeps, top, drain, budget >>
  /\ UNCHANGED history
  /\ ticked' = TRUE

\* ------------------------------------ refresh called by the user interface
\* what getItem("transactions") returns in memory m
StoreRead(m) == GetTx(m)

\* how many calls of refresh in a row the operation slot has seen
Refreshes(op) == IF "n" \in DOMAIN op THEN op.n ELSE 0

\* the slot of a refresh that is called: its number in the row, and what
\* the call before it left, if that one succeeded
Refreshing(op) ==
  IF "seen" \in DOMAIN op
    THEN [pc |-> "refresh", n |-> Refreshes(op) + 1, seen |-> op.seen]
    ELSE [pc |-> "refresh", n |-> Refreshes(op) + 1]

\* refreshTransactions() is called from the user interface
UserRefresh ==
  /\ Calm
  /\ top.pc = "idle"
  /\ Refreshes(top) < MaxRefreshes
  /\ IF online
       THEN /\ top' = Refreshing(top)
            /\ UNCHANGED << persisted, pendingTx, tpMem, dpMem >>
       ELSE /\ Commit(RefreshLocal(Mem))
            /\ top' = [pc |-> "idle", n |-> Refreshes(top) + 1]
            /\ UNCHANGED effDeps
  /\ UNCHANGED << online, clock, remote, epoch, dop, drain, budget >>
  /\ UNCHANGED history

\* its select returns (o)
UserRefreshReturn(o) ==
  LET m == RefreshRemote(Mem, o)
  IN
  /\ Calm
  /\ top.pc = "refresh"
  /\ Answers(o, TRUE)
  /\ Commit(m)
  /\ top' = IF o = "ok"
              THEN [pc |-> "idle", n |-> top.n,
                    seen |-> [remote |-> rTx, memory |-> m.transactions,
                              store |-> StoreRead(m)]]
              ELSE [pc |-> "idle", n |-> top.n]
  /\ UNCHANGED << online, now, remote, epoch, effDeps, dop, drain, ops, flips, restarts >>
  /\ UNCHANGED history
  /\ ticked' = TRUE

\* refreshData() is called from the user interface
DataRefresh ==
  /\ Calm
  /\ dop.pc = "idle"
  /\ Refreshes(dop) < MaxRefreshes
  /\ IF online
       THEN /\ dop' = Refreshing(dop)
            /\ UNCHANGED << persisted, pendingTx, tpMem, dpMem >>
       ELSE /\ Commit(DpRefreshLocal(Mem))
            /\ dop' = [pc |-> "idle", n |-> Refreshes(dop) + 1]
            /\ UNCHANGED effDeps
  /\ UNCHANGED << online, clock, remote, epoch, top, drain, budget >>
  /\ UNCHANGED history

\* its selects return (o)
DataRefreshReturn(o) ==
  LET m == DpRefreshRemote(Mem, o)
  IN
  /\ Calm
  /\ dop.pc = "refresh"
  /\ Answers(o, TRUE)
  /\ Commit(m)
  /\ dop' = IF o = "ok"
              THEN [pc |-> "idle", n |-> dop.n,
                    seen |-> [remote |-> rD, memory |-> m.names, store |-> m.lsD]]
              ELSE [pc |-> "idle", n |-> dop.n]
  /\ UNCHANGED << online, now, remote, epoch, effDeps, top, drain, ops, flips, restarts >>
  /\ UNCHANGED history
  /\ ticked' = TRUE

\* --------------------------------------------------- connectivity events
\* window 'online': handleOnline of both providers, each setting its flags
\* and calling its syncQueue(); both read the queue before either can clear it
OnlineEvent ==
  /\ Calm
  /\ ~online
  /\ flips < MaxFlips
  /\ ops + flips < MaxSteps
  /\ BagCardinality(drain) + 3 <= MaxDrains
  /\ LET r1 == TpSyncQueue([Mem EXCEPT !.isConnected = TRUE, !.isOffline = FALSE],
                           epoch + 1)
         r2 == DpSyncQueue([r1.m EXCEPT !.dIsOffline = FALSE], epoch + 1)
     IN  /\ Commit(r2.m)
         /\ drain' = Put(Put(drain, r1.d), r2.d)
  /\ online' = TRUE
  /\ epoch' = epoch + 1
  /\ flips' = flips + 1
  /\ UNCHANGED << now, remote, effDeps, top, dop, ops, restarts, fails, dropped >>
  /\ UNCHANGED history
  /\ ticked' = TRUE

\* window 'offline': handleOffline of both providers
OfflineEvent ==
  /\ Calm
  /\ online
  /\ flips < MaxFlips
  /\ ops + flips < MaxSteps
  /\ online' = FALSE
  /\ isConnected' = FALSE
  /\ isOffline' = TRUE
  /\ dIsOffline' = TRUE
  /\ flips' = flips + 1
  /\ UNCHANGED << now, persisted, pendingTx, remote, epoch, transactions, isSyncing,
                  effDeps, top, names, dIsSyncing, dop, drain, ops, restarts, fails, dropped >>
  /\ UNCHANGED history
  /\ ticked' = TRUE

\* useEffect(() => { if (isConnected && !isOffline) syncQueue() },
\*           [isConnected, isOffline]) after a render that changed a dependency
EffectRun ==
  /\ pendingTx = << >>
  /\ EffectDue
  /\ effDeps' = << isConnected, isOffline >>
  /\ IF isConnected /\ ~isOffline
       THEN /\ BagCardinality(drain) < MaxDrains
            /\ LET r == TpSyncQueue(Mem, epoch)
               IN  /\ Commit(r.m)
                   /\ drain' = Put(drain, r.d)
       ELSE UNCHANGED << persisted, pendingTx, transactions, isConnected, isOffline,
                         isSyncing, dpMem, drain >>
  /\ UNCHANGED << online, clock, remote, epoch, top, dop, budget >>
  /\ UNCHANGED history

\* a syncQueue whose loop made no remote call: await clearQueue(), then its refresh
DrainClear(d) ==
  /\ Calm
  /\ d.pc = "end"
  /\ UNCHANGED calls
  /\ LET r == IF d.prov = "tp" THEN TpFinish(Mem, online) ELSE DpFinish(Mem, online)
     IN  /\ Commit(r.m)
         /\ drain' = Put(Take(drain, d), r.d)
  /\ UNCHANGED << online, clock, remote, epoch, effDeps, top, dop, budget >>

\* ------------------------------------------------------- mount and restart
\* the React state of both providers at their first render
FirstRender(m, on) ==
  [m EXCEPT !.transactions = << >>, !.isConnected = on, !.isOffline = ~on,
            !.isSyncing = FALSE,
            !.names = [expense |-> << >>, income |-> << >>, payment |-> << >>],
            !.dIsOffline = ~on, !.dIsSyncing = FALSE]

\* the mount effects of both providers: each calls its refresh, and
\* TransactionProvider's [isConnected, isOffline] effect calls syncQueue when
\* online; m is the memory at the first render
Mount(m, on, ep) ==
  IF on
    THEN LET r == TpSyncQueue(m, ep)
         IN  [m |-> r.m, d |-> r.d, top |-> [pc |-> "rfRemote"], dop |-> [pc |-> "rfRemote"]]
    ELSE [m |-> DpRefreshLocal(RefreshLocal(m)), d |-> IdleDrain, top |-> IdleOp,
          dop |-> IdleOp]

\* the process is killed and started again: the React state and the
\* operations in flight are lost, localforage keeps what was written
Restart ==
  /\ restarts < MaxRestarts
  /\ flips < MaxFlips
  /\ ops + flips < MaxSteps
  /\ restarts' = restarts + 1
  /\ flips' = flips + 1
  /\ LET b == Mount(FirstRender([Mem EXCEPT !.pendingTx = << >>], online), online, epoch)
     IN  /\ Commit(b.m)
         /\ drain' = Put(EmptyBag, b.d)
         /\ top' = b.top
         /\ dop' = b.dop
  /\ effDeps' = << online, ~online >>
  /\ UNCHANGED << online, now, remote, epoch, ops, fails, dropped >>
  /\ UNCHANGED history
  /\ ticked' = TRUE

\* addTransaction, offline branch, up to and including its
\* `await setItem("transactions", ...)`: addToQueue has not been called
AddTransactionStored(m, p, t) ==
  SetTx(m, << Merge(p, [id |-> TempId("offline", t)]) >> \o GetTx(m))

\* addExpenseCategory, addIncomeCategory, addPaymentMethod, offline branch, up
\* to and including its setItem
AddDataStored(m, kind, c, t) ==
  [m EXCEPT !.lsD[kind] = Append(@, Merge(c, [id |-> TempId(IdPrefix(kind), t)]))]

\* the process is killed in an offline add between its setItem and its
\* addToQueue, and started again
CrashInAdd ==
  /\ Calm
  /\ ~online
  /\ ops < MaxOps
  /\ restarts < MaxRestarts
  /\ flips < MaxFlips
  /\ ops + flips + 1 < MaxSteps
  /\ \E t \in DateNow :
       \E m1 \in {AddTransactionStored(Mem, p, t) : p \in TxInputs}
                 \cup UNION {{AddDataStored(Mem, kind, c, t) :
                                c \in {x \in DataInputs(kind) :
                                         ~Includes(names[NamesKey(kind, x)], x.name)}} :
                             kind \in Kinds} :
         LET b == Mount(FirstRender(m1, online), online, epoch)
         IN  /\ Commit(b.m)
             /\ drain' = Put(EmptyBag, b.d)
             /\ top' = b.top
             /\ dop' = b.dop
             /\ now' = t
  /\ ticked' = TRUE
  /\ effDeps' = << online, ~online >>
  /\ ops' = ops + 1
  /\ restarts' = restarts + 1
  /\ flips' = flips + 1
  /\ UNCHANGED << online, remote, epoch, fails, dropped >>
  /\ UNCHANGED history

\* a first start: nothing persisted, an empty remote store
EmptyMem ==
  [syncQ |-> << >>, lsTx |-> << >>, pendingTx |-> << >>,
   lsD |-> [category |-> << >>, payment_method |-> << >>],
   transactions |-> << >>, isConnected |-> FALSE, isOffline |-> FALSE,
   isSyncing |-> FALSE,
   names |-> [expense |-> << >>, income |-> << >>, payment |-> << >>],
   dIsOffline |-> FALSE, dIsSyncing |-> FALSE]

Init ==
  /\ online \in BOOLEAN
  /\ now = 0
  /\ ticked = TRUE
  /\ rTx = << >>
  /\ rD = [category |-> << >>, payment_method |-> << >>]
  /\ origin = << >>
  /\ epoch = 0
  /\ LET b == Mount(FirstRender(EmptyMem, online), online, 0)
     IN  /\ syncQ = b.m.syncQ
         /\ lsTx = b.m.lsTx
         /\ pendingTx = b.m.pendingTx
         /\ lsD = b.m.lsD
         /\ transactions = b.m.transactions
         /\ isConnected = b.m.isConnected
         /\ isOffline = b.m.isOffline
         /\ isSyncing = b.m.isSyncing
         /\ names = b.m.names
         /\ dIsOffline = b.m.dIsOffline
         /\ dIsSyncing = b.m.dIsSyncing
         /\ drain = Put(EmptyBag, b.d)
         /\ top = b.top
         /\ dop = b.dop
  /\ effDeps = << online, ~online >>
  /\ ops = 0
  /\ flips = 0
  /\ calls = {}
  /\ restarts = 0
  /\ fails = 0
  /\ dropped = 0
  /\ ref = RefStart(<< >>)
  /\ obs = NoObs
  /\ auth = AuthStart
  /\ page = PageStart

Next ==
  \/ TpWriteOffline /\ UNCHANGED apart
  \/ DpWriteOffline /\ UNCHANGED apart
  \/ \E o \in RefreshOutcomes : TopRefreshRemote(o) /\ UNCHANGED apart
  \/ \E o \in RefreshOutcomes : DopRefreshRemote(o) /\ UNCHANGED apart
  \/ OnlineEvent /\ UNCHANGED apart
  \/ OfflineEvent /\ UNCHANGED apart
  \/ EffectRun /\ UNCHANGED apart
  \/ \E d \in InFlight : DrainClear(d) /\ UNCHANGED apart
  \/ \E d \in InFlight, o \in Outcomes : TpCall(d, o) /\ UNCHANGED apart
  \/ \E d \in InFlight, o \in RefreshOutcomes : TpRefreshRemote(d, o) /\ UNCHANGED apart
  \/ \E d \in InFlight, o \in Outcomes : DpCall(d, o) /\ UNCHANGED apart
  \/ \E d \in InFlight, o \in RefreshOutcomes : DpRefreshRemoteStep(d, o) /\ UNCHANGED apart
  \/ FlushPending /\ UNCHANGED apart
  \/ Restart /\ UNCHANGED apart
  \/ CrashInAdd /\ UNCHANGED apart

Spec == Init /\ [][Next]_vars

\* the writes called online, of both providers, with the transaction writes
\* called offline: no category or payment-method write offline and no restart
NextOnline ==
  \/ TpWriteOnline /\ UNCHANGED apart
  \/ \E o \in Outcomes : TpWriteServed(o) /\ UNCHANGED apart
  \/ TpWriteReturn /\ UNCHANGED apart
  \/ DpWriteOnline /\ UNCHANGED apart
  \/ \E o \in Outcomes : DpWriteServed(o) /\ UNCHANGED apart
  \/ DpWriteReturn /\ UNCHANGED apart
  \/ TpWriteOffline /\ UNCHANGED apart
  \/ \E o \in RefreshOutcomes : TopRefreshRemote(o) /\ UNCHANGED apart
  \/ \E o \in RefreshOutcomes : DopRefreshRemote(o) /\ UNCHANGED apart
  \/ OnlineEvent /\ UNCHANGED apart
  \/ OfflineEvent /\ UNCHANGED apart
  \/ EffectRun /\ UNCHANGED apart
  \/ \E d \in InFlight : DrainClear(d) /\ UNCHANGED apart
  \/ \E d \in InFlight, o \in Outcomes : TpCall(d, o) /\ UNCHANGED apart
  \/ \E d \in InFlight, o \in RefreshOutcomes : TpRefreshRemote(d, o) /\ UNCHANGED apart
  \/ \E d \in InFlight, o \in RefreshOutcomes : DpRefreshRemoteStep(d, o) /\ UNCHANGED apart
  \/ FlushPending /\ UNCHANGED apart

SpecOnline == Init /\ [][NextOnline]_vars

\* a remote store that holds rows of an earlier session: one transaction and
\* one category
StockedTx == << Inserted(CHOOSE p \in TxInputs : TRUE, 1) >>
StockedData ==
  [category |-> << Inserted(CHOOSE c \in CategoryInputs : TRUE, 2) >>,
   payment_method |-> << >>]

\* a first start on a device against that remote store
InitStocked ==
  /\ online \in BOOLEAN
  /\ now = 0
  /\ ticked = TRUE
  /\ rTx = StockedTx
  /\ rD = StockedData
  /\ origin = << [table |-> "transactions", temp |-> << "online", 1 >>, ep |-> -1, idx |-> 1],
                 [table |-> "category", temp |-> << "online", 2 >>, ep |-> -1, idx |-> 2] >>
  /\ epoch = 0
  /\ LET b == Mount(FirstRender(EmptyMem, online), online, 0)
     IN  /\ syncQ = b.m.syncQ
         /\ lsTx = b.m.lsTx
         /\ pendingTx = b.m.pendingTx
         /\ lsD = b.m.lsD
         /\ transactions = b.m.transactions
         /\ isConnected = b.m.isConnected
         /\ isOffline = b.m.isOffline
         /\ isSyncing = b.m.isSyncing
         /\ names = b.m.names
         /\ dIsOffline = b.m.dIsOffline
         /\ dIsSyncing = b.m.dIsSyncing
         /\ drain = Put(EmptyBag, b.d)
         /\ top = b.top
         /\ dop = b.dop
  /\ effDeps = << online, ~online >>
  /\ ops = 0
  /\ flips = 0
  /\ calls = {}
  /\ restarts = 0
  /\ fails = 0
  /\ dropped = 0
  /\ ref = RefStart(<< >>)
  /\ obs = NoObs
  /\ auth = AuthStart
  /\ page = PageStart

\* the refreshes the user interface calls, with the mount refreshes, the
\* connectivity events and the drains they start around them
NextRefresh ==
  \/ UserRefresh /\ UNCHANGED apart
  \/ \E o \in RefreshOutcomes : UserRefreshReturn(o) /\ UNCHANGED apart
  \/ DataRefresh /\ UNCHANGED apart
  \/ \E o \in RefreshOutcomes : DataRefreshReturn(o) /\ UNCHANGED apart
  \/ \E o \in RefreshOutcomes : TopRefreshRemote(o) /\ UNCHANGED apart
  \/ \E o \in RefreshOutcomes : DopRefreshRemote(o) /\ UNCHANGED apart
  \/ OnlineEvent /\ UNCHANGED apart
  \/ OfflineEvent /\ UNCHANGED apart
  \/ EffectRun /\ UNCHANGED apart
  \/ \E d \in InFlight : DrainClear(d) /\ UNCHANGED apart
  \/ \E d \in InFlight, o \in RefreshOutcomes : TpRefreshRemote(d, o) /\ UNCHANGED apart
  \/ \E d \in InFlight, o \in RefreshOutcomes : DpRefreshRemoteStep(d, o) /\ UNCHANGED apart
  \/ FlushPending /\ UNCHANGED apart

SpecRefresh == InitStocked /\ [][NextRefresh]_vars

\* ------------------------------------ offline writes with addToQueue in flight
\* The offline branch of a write in two steps: up to the read of
\* 'sync-queue' in addToQueue (the Local Store is written), and from the
\* setItem("sync-queue", queue) of addToQueue to the end of the function.
\* m is the memory the whole branch leaves, t the Date.now() it read (-1: none)
TpOffline ==
  {[m |-> AddTransactionOffline(Mem, p, t), t |-> t] : p \in TxInputs, t \in DateNow}
    \cup {[m |-> RemoveTransactionOffline(Mem, id), t |-> -1] : id \in ShownIds}
    \cup {[m |-> UpdateTransactionOffline(Mem, id, u), t |-> -1] :
            id \in ShownIds, u \in UpdateInputs}
    \cup {[m |-> BulkRenameOffline(Mem, r), t |-> -1] : r \in RenameInputs}

DpOffline ==
  UNION {{[m |-> AddDataOffline(Mem, kind, c, t), t |-> t, key |-> NamesKey(kind, c),
             name |-> c.name] :
            c \in {x \in DataInputs(kind) : ~Includes(names[NamesKey(kind, x)], x.name)},
            t \in DateNow}
           \cup {[m |-> RemoveDataOffline(Mem, kind, c), t |-> -1, key |-> NamesKey(kind, c),
                   name |-> c.name] : c \in DataInputs(kind)} :
         kind \in Kinds}

\* the action the branch hands to addToQueue
Enqueued(m) == m.syncQ[Len(m.syncQ)]

\* a transaction write called offline, up to `await getItem("sync-queue")`
TpEnqueueStart ==
  /\ Calm
  /\ ~online
  /\ top.pc = "idle"
  /\ ops < MaxOps
  /\ ops + flips < MaxSteps
  /\ \E w \in TpOffline :
       /\ lsTx' = w.m.lsTx
       /\ pendingTx' = w.m.pendingTx
       /\ top' = [pc |-> "enqueue", action |-> Enqueued(w.m), queue |-> syncQ,
                  shown |-> w.m.transactions]
       /\ IF w.t >= 0 THEN now' = w.t /\ ticked' = FALSE ELSE UNCHANGED clock
  /\ ops' = ops + 1
  /\ UNCHANGED << online, lsD, syncQ, remote, epoch, tpMem, dpMem, dop, drain, flips,
                  restarts, fails, dropped >>
  /\ UNCHANGED history

\* queue.push(action); await setItem("sync-queue", queue); setTransactions(...)
TpEnqueueDone ==
  /\ top.pc = "enqueue"
  /\ syncQ' = Pushed(top.queue, top.action)
  /\ transactions' = top.shown
  /\ top' = IdleOp
  /\ UNCHANGED << online, clock, lsTx, lsD, pendingTx, remote, epoch, isConnected, isOffline,
                  isSyncing, effDeps, dpMem, dop, drain, budget >>
  /\ UNCHANGED history

\* a category or payment-method write called offline, up to the read of
\* 'sync-queue'; a remove that finds no row calls no addToQueue and ends at once
DpEnqueueStart ==
  /\ Calm
  /\ ~online
  /\ dop.pc = "idle"
  /\ ops < MaxOps
  /\ ops + flips < MaxSteps
  /\ \E w \in DpOffline :
       /\ lsD' = w.m.lsD
       /\ IF w.m.syncQ = syncQ
            THEN names' = w.m.names /\ dop' = IdleOp
            ELSE /\ names' = names
                 /\ dop' = [pc |-> "enqueue", action |-> Enqueued(w.m), queue |-> syncQ,
                            key |-> w.key, name |-> w.name]
       /\ IF w.t >= 0 THEN now' = w.t /\ ticked' = FALSE ELSE UNCHANGED clock
  /\ ops' = ops + 1
  /\ UNCHANGED << online, lsTx, pendingTx, syncQ, remote, epoch, tpMem, dIsOffline,
                  dIsSyncing, top, drain, flips, restarts, fails, dropped >>
  /\ UNCHANGED history

\* queue.push(action); await setItem("sync-queue", queue);
\* setExpenseCategories(prev => ...)
DpEnqueueDone ==
  /\ dop.pc = "enqueue"
  /\ syncQ' = Pushed(dop.queue, dop.action)
  /\ names' = [names EXCEPT ![dop.key] =
                 IF dop.action.type = "add" THEN Append(@, dop.name)
                 ELSE SelectSeq(@, LAMBDA n : n # dop.name)]
  /\ dop' = IdleOp
  /\ UNCHANGED << online, clock, lsTx, lsD, pendingTx, remote, epoch, tpMem, dIsOffline,
                  dIsSyncing, top, drain, budget >>
  /\ UNCHANGED history

\* the offline writes of both providers issued without awaiting each other,
\* with the mount refreshes and the connectivity events around them; the
\* syncQueue invocations the events start make no step
NextQueue ==
  \/ TpEnqueueStart /\ UNCHANGED apart
  \/ TpEnqueueDone /\ UNCHANGED apart
  \/ DpEnqueueStart /\ UNCHANGED apart
  \/ DpEnqueueDone /\ UNCHANGED apart
  \/ \E o \in RefreshOutcomes : TopRefreshRemote(o) /\ UNCHANGED apart
  \/ \E o \in RefreshOutcomes : DopRefreshRemote(o) /\ UNCHANGED apart
  \/ OnlineEvent /\ UNCHANGED apart
  \/ OfflineEvent /\ UNCHANGED apart
  \/ EffectRun /\ UNCHANGED apart
  \/ FlushPending /\ UNCHANGED apart

SpecQueue == Init /\ [][NextQueue]_vars

\* ------------------------------------------- a start with a persisted queue
\* what an earlier session wrote offline at time 1: one transaction, one
\* category and one payment method, each with its 'add' entry
StartTx == Merge(CHOOSE p \in TxInputs : TRUE, [id |-> TempId("offline", 1)])
StartCategory == Merge(CHOOSE c \in CategoryInputs : TRUE, [id |-> TempId("offline-cat", 1)])
StartPayment == Merge(CHOOSE c \in PaymentInputs : TRUE, [id |-> TempId("offline-pay", 1)])

StartEntries ==
  {[type |-> "add", data |-> StartTx],
   [entity |-> "category", type |-> "add", data |-> StartCategory],
   [entity |-> "payment_method", type |-> "add", data |-> StartPayment]}

\* the three entries in any order
StartQueues ==
  {q \in [1..3 -> StartEntries] : \A i, j \in 1..3 : q[i] = q[j] => i = j}

\* the process starts with navigator.onLine true over that persisted state
InitRestart ==
  /\ online = TRUE
  /\ now = 1
  /\ ticked = TRUE
  /\ rTx = << >>
  /\ rD = [category |-> << >>, payment_method |-> << >>]
  /\ origin = << >>
  /\ epoch = 0
  /\ \E q \in StartQueues :
       LET m0 == [EmptyMem EXCEPT !.syncQ = q, !.lsTx = << StartTx >>,
                                  !.lsD = [category |-> << StartCategory >>,
                                           payment_method |-> << StartPayment >>]]
           b == Mount(FirstRender(m0, online), online, 0)
       IN  /\ syncQ = b.m.syncQ
           /\ lsTx = b.m.lsTx
           /\ pendingTx = b.m.pendingTx
           /\ lsD = b.m.lsD
           /\ transactions = b.m.transactions
           /\ isConnected = b.m.isConnected
           /\ isOffline = b.m.isOffline
           /\ isSyncing = b.m.isSyncing
           /\ names = b.m.names
           /\ dIsOffline = b.m.dIsOffline
           /\ dIsSyncing = b.m.dIsSyncing
           /\ drain = Put(EmptyBag, b.d)
           /\ top = b.top
           /\ dop = b.dop
  /\ effDeps = << online, ~online >>
  /\ ops = 0
  /\ flips = 0
  /\ calls = {}
  /\ restarts = 0
  /\ fails = 0
  /\ dropped = 0
  /\ ref = RefStart(<< >>)
  /\ obs = NoObs
  /\ auth = AuthStart
  /\ page = PageStart

\* what runs after that start when no connectivity event comes and nothing
\* is written: the mount refreshes, the effect, TransactionProvider's
\* syncQueue (DataProvider calls syncQueue in handleOnline alone)
NextRestart ==
  \/ \E o \in RefreshOutcomes : TopRefreshRemote(o) /\ UNCHANGED apart
  \/ \E o \in RefreshOutcomes : DopRefreshRemote(o) /\ UNCHANGED apart
  \/ EffectRun /\ UNCHANGED apart
  \/ \E d \in InFlight : DrainClear(d) /\ UNCHANGED apart
  \/ \E d \in InFlight, o \in Outcomes : TpCall(d, o) /\ UNCHANGED apart
  \/ \E d \in InFlight, o \in RefreshOutcomes : TpRefreshRemote(d, o) /\ UNCHANGED apart
  \/ FlushPending /\ UNCHANGED apart

SpecRestart == InitRestart /\ [][NextRestart]_vars

\* ------------------------------- the online-only TransactionProvider beside
\* src/lib/transaction-context.tsx run on the calls made on the offline-capable
\* provider, with the results the remote store gives those
\* supabase.from('transactions').select('*').order('date', ...)
Select == [type |-> "select"]

\* a function of the online-only provider is called: setError(null), and its
\* remote call is issued
RefCalled(r, call) == [r EXCEPT !.error = "null", !.issued = Append(@, call)]

\* setTransactions(prev => ...) of addTransaction, removeTransaction,
\* updateTransaction, bulkRenameInTransactions
RefApplied(list, w, n) ==
  CASE w.type = "add" -> << Inserted(w.data, n) >> \o list
    [] w.type = "delete" -> Without(list, w.id)
    [] w.type = "update" -> MapUpdate(list, w.id, w.data)
    [] w.type = "bulkRename" -> MapRename(list, w.field, w.oldValue, w.newValue)

\* a write from the return of its remote call: `if (supabaseError) throw`,
\* catch: setError(error.message)
RefWriteDone(r, w, n, o) ==
  IF o = "ok" THEN [r EXCEPT !.transactions = RefApplied(@, w, n)]
  ELSE [r EXCEPT !.error = o]

\* refreshTransactions from the return of its select
RefRefreshDone(r, o) ==
  IF o = "ok" THEN [r EXCEPT !.transactions = SelectTransactions]
  ELSE [r EXCEPT !.error = o]

\* the offline-capable provider: setError(null) and the remote call issued
ObsCalled(b, call) == [b EXCEPT !.error = "null", !.issued = Append(@, call)]

\* the offline-capable provider: the catch after a remote result o
ObsDone(b, o) == IF o = "ok" THEN b ELSE [b EXCEPT !.error = o]

\* both providers are mounted online against a remote store that holds a
\* row, their mount refresh has succeeded and the queue is empty
InitRefine ==
  /\ online = TRUE
  /\ now = 0
  /\ ticked = TRUE
  /\ rTx = StockedTx
  /\ rD = StockedData
  /\ origin = << [table |-> "transactions", temp |-> << "online", 1 >>, ep |-> -1, idx |-> 1],
                 [table |-> "category", temp |-> << "online", 2 >>, ep |-> -1, idx |-> 2] >>
  /\ epoch = 0
  /\ syncQ = << >>
  /\ lsTx = StockedTx
  /\ pendingTx = << >>
  /\ lsD = StockedData
  /\ transactions = StockedTx
  /\ isConnected = TRUE
  /\ isOffline = FALSE
  /\ isSyncing = FALSE
  /\ names = NamesOf(StockedData.category, StockedData.payment_method)
  /\ dIsOffline = FALSE
  /\ dIsSyncing = FALSE
  /\ drain = EmptyBag
  /\ top = IdleOp
  /\ dop = IdleOp
  /\ effDeps = << TRUE, FALSE >>
  /\ ops = 0
  /\ flips = 0
  /\ calls = {}
  /\ restarts = 0
  /\ fails = 0
  /\ dropped = 0
  /\ ref = RefStart(StockedTx)
  /\ obs = NoObs
  /\ auth = AuthStart
  /\ page = PageStart

\* a write is called on both providers
RefineWriteCall ==
  /\ TpWriteOnline
  /\ ref' = RefCalled(ref, top'.w)
  /\ obs' = ObsCalled(obs, top'.w)

\* the write returns in both
RefineWriteReturn ==
  /\ TpWriteReturn
  /\ ref' = RefWriteDone(ref, top.w, top.n, top.res)
  /\ obs' = ObsDone(obs, top.res)

\* refreshTransactions is called on both providers
RefineRefreshCall ==
  /\ UserRefresh
  /\ ref' = RefCalled(ref, Select)
  /\ obs' = ObsCalled(obs, Select)

\* the select returns in both
RefineRefreshReturn(o) ==
  /\ UserRefreshReturn(o)
  /\ ref' = RefRefreshDone(ref, o)
  /\ obs' = ObsDone(obs, o)

\* a syncQueue of the offline-capable provider is past clearQueue() and
\* calls refreshTransactions
RefineDrainClear(d) ==
  /\ DrainClear(d)
  /\ obs' = ObsCalled(obs, Select)
  /\ UNCHANGED ref

\* the select of that refresh returns
RefineDrainRefresh(d, o) ==
  /\ TpRefreshRemote(d, o)
  /\ obs' = ObsDone(obs, o)
  /\ UNCHANGED ref

\* navigator.onLine true throughout: calls awaited one after the other, and
\* what the offline-capable provider runs by itself
NextRefine ==
  \/ RefineWriteCall /\ UNCHANGED pages
  \/ \E o \in Outcomes : TpWriteServed(o) /\ UNCHANGED apart
  \/ RefineWriteReturn /\ UNCHANGED pages
  \/ RefineRefreshCall /\ UNCHANGED pages
  \/ \E o \in RefreshOutcomes : RefineRefreshReturn(o) /\ UNCHANGED pages
  \/ EffectRun /\ UNCHANGED apart
  \/ \E d \in InFlight : RefineDrainClear(d) /\ UNCHANGED pages
  \/ \E d \in InFlight, o \in RefreshOutcomes : RefineDrainRefresh(d, o) /\ UNCHANGED pages
  \/ FlushPending /\ UNCHANGED apart

SpecRefine == InitRefine /\ [][NextRefine]_vars

\* ------------------------------------------------------------ AuthProvider
\* results of a remote call on auth_sessions: served, answered with { error },
\* or the promise rejects
AuthOutcomes == {"ok", "error", "throw"}
AccessKeys == {"right", "wrong"}

\* checkAuthStatus up to its select
CheckCalled(a) ==
  IF a.token = NoToken
  THEN [a EXCEPT !.isAuthenticated = FALSE, !.isLoading = FALSE,
                 !.pc = "idle", !.returned = "checkAuthStatus"]
  ELSE [a EXCEPT !.isLoading = TRUE, !.pc = "check"]

\* checkAuthStatus from the return of .single()
CheckDone(a, o) ==
  LET found == o = "ok" /\ a.token \in a.sessions
  IN [a EXCEPT !.isAuthenticated = found,
               !.token = IF found \/ o = "throw" THEN @ ELSE NoToken,
               !.isLoading = FALSE, !.pc = "idle", !.returned = "checkAuthStatus"]

\* logout up to its remote delete
LogoutCalled(a) ==
  IF a.token = NoToken
  THEN [a EXCEPT !.isAuthenticated = FALSE, !.toast = "Logged Out",
                 !.isLoading = FALSE, !.pc = "idle", !.returned = "logout"]
  ELSE [a EXCEPT !.isLoading = TRUE, !.pc = "logout", !.arg = a.token]

\* logout from the return of the delete: its { error } is not read; a
\* rejection goes to the catch; finally setIsLoading(false)
LogoutDone(a, o) ==
  IF o = "throw"
  THEN [a EXCEPT !.toast = "Logout Error", !.isLoading = FALSE,
                 !.pc = "idle", !.returned = "logout"]
  ELSE [a EXCEPT !.sessions = IF o = "ok" THEN @ \ {a.arg} ELSE @,
                 !.token = NoToken, !.isAuthenticated = FALSE,
                 !.toast = "Logged Out", !.isLoading = FALSE,
                 !.pc = "idle", !.returned = "logout"]

\* useEffect(() => { checkAuthStatus() }, [])
AuthMount ==
  /\ auth.pc = "mount"
  /\ auth' = CheckCalled(auth)

CheckAuthStatus ==
  /\ auth.pc = "idle"
  /\ auth' = CheckCalled(auth)

CheckReturn(o) ==
  /\ auth.pc = "check"
  /\ auth' = CheckDone(auth, o)

\* login(accessKey), VITE_ACCESS_KEY configured
Login(key) ==
  /\ auth.pc = "idle"
  /\ IF key = "wrong"
     THEN auth' = [auth EXCEPT !.toast = "Invalid Access Key", !.isLoading = FALSE,
                               !.returned = "login"]
     ELSE /\ auth.minted < MaxLogins
          /\ auth' = [auth EXCEPT !.isLoading = TRUE, !.pc = "login",
                                  !.minted = @ + 1, !.arg = Token(auth.minted + 1)]

LoginReturn(o) ==
  /\ auth.pc = "login"
  /\ auth' =
       IF o = "ok"
       THEN [auth EXCEPT !.sessions = @ \cup {auth.arg}, !.token = auth.arg,
                         !.isAuthenticated = TRUE, !.toast = "Login Successful",
                         !.isLoading = FALSE, !.pc = "idle", !.returned = "login"]
       ELSE [auth EXCEPT !.toast = IF o = "error" THEN "Login Failed" ELSE "Login Error",
                         !.isLoading = FALSE, !.pc = "idle", !.returned = "login"]

Logout ==
  /\ auth.pc = "idle"
  /\ auth' = LogoutCalled(auth)

LogoutReturn(o) ==
  /\ auth.pc = "logout"
  /\ auth' = LogoutDone(auth, o)

\* terminateSession(sessionToken) of a session listed by getActiveSessions
TerminateSession(t) ==
  /\ auth.pc = "idle"
  /\ t \in auth.sessions
  /\ auth' = [auth EXCEPT !.pc = "terminate", !.arg = t]

\* the delete returns: if (error) throw; the current session goes on to logout()
TerminateReturn(o) ==
  /\ auth.pc = "terminate"
  /\ auth' =
       IF o = "ok"
       THEN LET a == [auth EXCEPT !.sessions = @ \ {auth.arg}]
            IN IF auth.arg = a.token THEN LogoutCalled(a)
               ELSE [a EXCEPT !.pc = "idle", !.returned = "terminateSession"]
       ELSE [auth EXCEPT !.pc = "idle", !.returned = "terminateSession"]

\* a session expires or is terminated from another device
SessionEnds(t) ==
  /\ t \in auth.sessions
  /\ auth' = [auth EXCEPT !.sessions = @ \ {t}]

NextAuth ==
  \/ AuthMount /\ UNCHANGED << app, page >>
  \/ CheckAuthStatus /\ UNCHANGED << app, page >>
  \/ \E o \in AuthOutcomes : CheckReturn(o) /\ UNCHANGED << app, page >>
  \/ \E key \in AccessKeys : Login(key) /\ UNCHANGED << app, page >>
  \/ \E o \in AuthOutcomes : LoginReturn(o) /\ UNCHANGED << app, page >>
  \/ Logout /\ UNCHANGED << app, page >>
  \/ \E o \in AuthOutcomes : LogoutReturn(o) /\ UNCHANGED << app, page >>
  \/ \E t \in auth.sessions : TerminateSession(t) /\ UNCHANGED << app, page >>
  \/ \E o \in AuthOutcomes : TerminateReturn(o) /\ UNCHANGED << app, page >>
  \/ \E t \in auth.sessions : SessionEnds(t) /\ UNCHANGED << app, page >>

SpecAuth == Init /\ [][NextAuth]_vars

\* -------------------------------------------------------------- BudgetPage
\* results of a remote call on categoriesbudget: served or answered with { error }
PageOutcomes == {"ok", "error"}
\* newBudgetTag.trim() as typed by the user
TagNames == {"Bills", "NoTag"}

Ids(tags) == {tags[i].id : i \in 1..Len(tags)}
IdsOf(tags) == [i \in 1..Len(tags) |-> tags[i].id]

\* budgetTags.find(t => t.name === 'NoTag'): the positions of tags so named
NoTagAt(tags) == {i \in 1..Len(tags) : tags[i].name = "NoTag"}
\* budgetTags.find(t => t.id === id)
TagAt(tags, id) == {i \in 1..Len(tags) : tags[i].id = id}
First(S) == CHOOSE i \in S : \A j \in S : i <= j

\* .select('*').is('parent_id', null).order('order', { ascending: true }):
\* rows of equal order come in any sequence
SelectTags(rows) ==
  {s \in [1..Cardinality(rows) -> rows] :
     /\ \A i, j \in 1..Cardinality(rows) : i < j => s[i] # s[j] /\ s[i].order <= s[j].order}

\* Math.max(...budgetTags.map(t => t.order ?? 0)), 0 for an empty list
MaxOrder(tags) ==
  IF tags = << >> THEN 0
  ELSE CHOOSE n \in {tags[i].order : i \in 1..Len(tags)} :
         \A i \in 1..Len(tags) : tags[i].order <= n

\* arrayMove of @dnd-kit/sortable, positions from 1
ArrayMove(arr, from, to) ==
  LET rest == SubSeq(arr, 1, from - 1) \o SubSeq(arr, from + 1, Len(arr))
  IN SubSeq(rest, 1, to - 1) \o << arr[from] >> \o SubSeq(rest, to, Len(rest))

IndexOf(arr, x) == First({i \in 1..Len(arr) : arr[i] = x})

\* update({ order: idx }).eq('id', id) for every id of newOrder, idx from 0
Reordered(rows, newOrder) ==
  {IF r.id \in {newOrder[i] : i \in 1..Len(newOrder)}
   THEN [r EXCEPT !.order = IndexOf(newOrder, r.id) - 1] ELSE r : r \in rows}

\* fetchAllData is called: the select of the tags is issued
FetchCalled(p) == [p EXCEPT !.pc = "tags", !.arg = << >>]

\* useEffect(() => { fetchAllData(); }, [])
PageMount ==
  /\ page.pc = "mount"
  /\ page' = FetchCalled(page)

\* the select of the tags returns. With an error data is null, and
\* tagsTyped.find throws a TypeError: fetchAllData, and the handler that
\* awaits it, end there
FetchTagsReturn(o) ==
  /\ page.pc = "tags"
  /\ IF o = "error"
     THEN page' = [page EXCEPT !.pc = "idle"]
     ELSE \E s \in SelectTags(page.rows) :
            page' = [page EXCEPT !.tagsTyped = s,
                                 !.pc = IF NoTagAt(s) = {} THEN "insert" ELSE "rest"]

\* insert([{ name: 'NoTag', parent_id: null, default_value: 0 }]).select()
\* returns: the row gets the default order 0
FetchInsertReturn(o) ==
  /\ page.pc = "insert"
  /\ IF o = "ok"
     THEN LET noTag == [id |-> page.nextId, name |-> "NoTag", order |-> 0]
          IN page' = [page EXCEPT !.rows = @ \cup {noTag}, !.nextId = @ + 1,
                                  !.tagsTyped = << noTag >> \o @, !.pc = "rest"]
     ELSE page' = [page EXCEPT !.pc = "rest"]

\* the selects of the categories and of the transactions have returned:
\* setBudgetTags(tagsTyped), and the effect on [budgetTags] sets tagOrder
FetchDone ==
  /\ page.pc = "rest"
  /\ page' = [page EXCEPT !.budgetTags = page.tagsTyped,
                          !.tagOrder = IdsOf(page.tagsTyped),
                          !.fetched = TRUE, !.pc = "idle"]

\* handleAddBudgetTag up to its insert
AddBudgetTag(name) ==
  /\ page.pc = "idle"
  /\ page.added < MaxAdds
  /\ page' = [page EXCEPT !.pc = "add", !.added = @ + 1,
                          !.arg = [name |-> name, order |-> MaxOrder(page.budgetTags) + 1]]

AddBudgetTagReturn(o) ==
  /\ page.pc = "add"
  /\ IF o = "error"
     THEN page' = [page EXCEPT !.toast = "Error", !.pc = "idle"]
     ELSE page' = FetchCalled([page EXCEPT
                    !.rows = @ \cup {[id |-> page.nextId, name |-> page.arg.name,
                                      order |-> page.arg.order]},
                    !.nextId = @ + 1])

\* handleRemoveBudgetTag(id) of a tag shown, window.confirm answered with OK
RemoveBudgetTag(id) ==
  /\ page.pc = "idle"
  /\ TagAt(page.budgetTags, id) # {}
  /\ LET tag == page.budgetTags[First(TagAt(page.budgetTags, id))]
     IN IF tag.name = "NoTag"
        THEN page' = [page EXCEPT !.toast = "Cannot Delete"]
        ELSE page' = [page EXCEPT !.pc = "remove", !.arg = id,
                                  !.deletes = @ \cup {tag.name}]

RemoveBudgetTagReturn(o) ==
  /\ page.pc = "remove"
  /\ IF o = "error"
     THEN page' = [page EXCEPT !.toast = "Error", !.pc = "idle"]
     ELSE page' = FetchCalled([page EXCEPT !.rows = {r \in @ : r.id # page.arg}])

\* handleTagDragEnd({ active, over }) on two of the items of tagOrder
TagDragEnd(active, over) ==
  /\ page.pc = "idle"
  /\ {active, over} \subseteq Ids(page.budgetTags)
  /\ LET tags == page.budgetTags
         dragged == {tags[First(TagAt(tags, active))].name, tags[First(TagAt(tags, over))].name}
         newOrder == ArrayMove(page.tagOrder, IndexOf(page.tagOrder, active),
                               IndexOf(page.tagOrder, over))
     IN IF NoTagAt(tags) = {}
           \/ active = tags[First(NoTagAt(tags))].id
           \/ over = tags[First(NoTagAt(tags))].id
        THEN page' = [page EXCEPT !.drag = [names |-> dragged, moved |-> FALSE]]
        ELSE page' = [page EXCEPT !.tagOrder = newOrder, !.pc = "drag", !.arg = newOrder,
                                  !.drag = [names |-> dragged,
                                            moved |-> newOrder # page.tagOrder]]

\* Promise.all of the updates returns, their { error } is not read
TagDragEndReturn(o) ==
  /\ page.pc = "drag"
  /\ page' = FetchCalled([page EXCEPT
                 !.rows = IF o = "ok" THEN Reordered(@, page.arg) ELSE @])

NextPage ==
  \/ PageMount /\ UNCHANGED << app, auth >>
  \/ \E o \in PageOutcomes : FetchTagsReturn(o) /\ UNCHANGED << app, auth >>
  \/ \E o \in PageOutcomes : FetchInsertReturn(o) /\ UNCHANGED << app, auth >>
  \/ FetchDone /\ UNCHANGED << app, auth >>
  \/ \E name \in TagNames : AddBudgetTag(name) /\ UNCHANGED << app, auth >>
  \/ \E o \in PageOutcomes : AddBudgetTagReturn(o) /\ UNCHANGED << app, auth >>
  \/ \E id \in Ids(page.budgetTags) : RemoveBudgetTag(id) /\ UNCHANGED << app, auth >>
  \/ \E o \in PageOutcomes : RemoveBudgetTagReturn(o) /\ UNCHANGED << app, auth >>
  \/ \E active, over \in Ids(page.budgetTags) :
       TagDragEnd(active, over) /\ UNCHANGED << app, auth >>
  \/ \E o \in PageOutcomes : TagDragEndReturn(o) /\ UNCHANGED << app, auth >>

SpecPage == Init /\ [][NextPage]_vars

\* ================================================================ properties
\* an identifier the client made up: `offline-...`, not one the remote store issued
IsTemp(id) == id[1] # "srv"

\* an entry written by TransactionProvider (it carries no entity)
TxWrite(a) == Entity(a) = "undefined"

\* entry k is in the persisted queue before the step and not after it
Leaves(k) == k > Len(syncQ') \/ syncQ'[k] # syncQ[k]

\* nothing is in flight in TransactionProvider and every remote call so far
\* succeeded: the drains that ran have cleared the queue and refreshed
Settled ==
  /\ online
  /\ drain = EmptyBag
  /\ pendingTx = << >>
  /\ ~EffectDue
  /\ top.pc = "idle"
  /\ fails = 0
  /\ restarts = 0

\* the entries of calls that are transaction adds replayed by TransactionProvider
TxAdds == {c \in calls : c.prov = "tp" /\ TxWrite(c.entry) /\ c.entry.type = "add"}

\* the positions of the Local Store that hold a server row made from temporary id T
RowsFrom(T) ==
  {k \in 1..Len(lsTx) :
     \E n \in 1..Len(origin) :
        /\ origin[n].table = "transactions"
        /\ origin[n].temp = T
        /\ lsTx[k].id = ServerId(n)}

\* C1: an entry leaves the persisted 'sync-queue' only if a remote call made
\* for that entry has returned success
C1_NoQueuedMutationLost ==
  [][\A k \in 1..Len(syncQ) :
       Leaves(k) => \E c \in calls' : c.idx = k /\ c.entry = syncQ[k] /\ c.res = "ok"]_vars

\* C2: a TransactionProvider drain that has moved past an entry written by a
\* transaction write (add, update, delete, bulkRename) has issued the remote
\* call of that entry: one call per write, in queue order
C2_ReplayOrder ==
  \A d \in InFlight :
    (d.prov = "tp" /\ d.pc \in {"call", "end"}) =>
      \A j \in 1..Len(d.queue) :
        ((d.pc = "call" => j < d.i) /\ TxWrite(d.queue[j])) =>
          \E c \in calls : c.prov = "tp" /\ c.ep = d.ep /\ c.idx = j /\ c.entry = d.queue[j]

\* C3: within one became-online transition a queued add produces at most one
\* remote insert: no two server rows stem from the same queue entry of the
\* same transition
C3_OneInsertPerTransition ==
  restarts = 0 =>
    \A m, n \in 1..Len(origin) :
      (/\ m < n
       /\ origin[m].table = "transactions"
       /\ origin[n].table = "transactions"
       /\ origin[m].ep = origin[n].ep)
      => origin[m].idx # origin[n].idx

\* C4: once the drains have completed successfully, a transaction that was
\* added offline once under temporary id T and not deleted is in the Local
\* Store exactly once, under a server id, and no entity has id T; and T is
\* never in the Local Store together with a server row made from T
C4_IdentifierRemapping ==
  /\ \A c \in TxAdds :
       LET T == c.entry.data.id
       IN  (/\ Settled
            /\ syncQ = << >>
            /\ \A e \in TxAdds : e.entry.data.id = T => (e.ep = c.ep /\ e.idx = c.idx)
            /\ \A e \in calls : e.entry.type # "delete")
           => /\ Cardinality(RowsFrom(T)) = 1
              /\ \A k \in 1..Len(lsTx) : lsTx[k].id # T
  /\ \A k \in 1..Len(lsTx) : IsTemp(lsTx[k].id) => RowsFrom(lsTx[k].id) = {}

\* C5: when a remote call of a drain throws, the drain ends there without
\* clearQueue and without refresh, and the persisted queue is then the queue
\* the drain read
C5_FailedDrainKeepsQueue ==
  [][\A d \in InFlight :
       (d.pc = "call" /\ Called(d, "throw") \in calls' \ calls) =>
          (syncQ' = d.queue /\ drain' = Take(drain, d))]_vars

\* C6: after a drain aborted on an entry of the queue, the queue becomes empty
\* only by a drain that has made the remote call of every entry of the queue
\* without a throw
C6_WholeQueueRetry ==
  [][(/\ syncQ # << >>
      /\ syncQ' = << >>
      /\ \E c \in calls' : c.res = "throw" /\ c.idx <= Len(syncQ) /\ syncQ[c.idx] = c.entry)
     => \E prov \in {"tp", "dp"}, ep \in 0..epoch :
          \A k \in 1..Len(syncQ) :
             \E c \in calls' : /\ c.prov = prov /\ c.ep = ep /\ c.idx = k
                               /\ c.entry = syncQ[k] /\ c.res # "throw"]_vars

C8_ScenarioA ==
  /\ (/\ ops = 1 /\ flips = 0 /\ restarts = 0 /\ ~online
      /\ syncQ # << >> /\ TxWrite(syncQ[1]) /\ syncQ[1].type = "add")
     => /\ Len(syncQ) = 1
        /\ Len(lsTx) = 1
        /\ IsTemp(lsTx[1].id)
        /\ syncQ[1].data = lsTx[1]
  /\ (/\ ops = 1 /\ flips = 1 /\ Settled /\ TxAdds # {})
     => /\ Len(rTx) = 1
        /\ ~IsTemp(rTx[1].id)
        /\ lsTx = rTx
        /\ syncQ = << >>

\* C9: no drain issues a remote delete for a temporary id, neither for a
\* transaction nor for a category or payment method
C9_NoRemoteDeleteOfTempId ==
  \A c \in calls :
    (c.entry.type = "delete" /\ (c.prov = "tp" => TxWrite(c.entry))) => ~IsTemp(c.entry.id)

\* C10: a 'bulkRename' entry leaves the queue only after the drain has issued
\* the remote update for it
C10_ScenarioC ==
  [][\A k \in 1..Len(syncQ) :
       (syncQ[k].type = "bulkRename" /\ Leaves(k)) =>
          \E c \in calls' : c.idx = k /\ c.entry = syncQ[k]]_vars

\* the step is the clearQueue() of the syncQueue invocation d: the queue is
\* emptied and d moves on to its refresh, or ends with it
ClearedBy(d) ==
  /\ syncQ # << >>
  /\ syncQ' = << >>
  /\ \/ drain' = Take(drain, d)
     \/ drain' = Take(drain, d) (+) SetToBag({[pc |-> "rfRemote", prov |-> d.prov]})

\* C15: clearQueue() removes only entries the clearing drain dispatched: every
\* entry in the queue when a drain clears it is an entry that drain read and
\* has a branch for (DataProvider: entity category or payment_method;
\* TransactionProvider: type add, update or delete)
C15_ClearOnlyDispatched ==
  [][\A d \in InFlight :
       ClearedBy(d) =>
         \A k \in 1..Len(syncQ) :
           /\ k <= Len(d.queue)
           /\ d.queue[k] = syncQ[k]
           /\ Awaits(d.prov, syncQ[k])]_vars

\* C16: an entry is replayed on the collection of its own kind, by one
\* provider: TransactionProvider (which calls 'transactions') issues remote
\* calls only for entries written by transaction writes, and no entry of one
\* drain generation gets a successful remote call from both providers
C16_ReplayOnOwnCollection ==
  /\ \A c \in calls : c.prov = "tp" => TxWrite(c.entry)
  /\ \A c1, c2 \in calls :
       (/\ c1.ep = c2.ep /\ c1.idx = c2.idx /\ c1.entry = c2.entry
        /\ c1.res = "ok" /\ c2.res = "ok") => c1.prov = c2.prov

\* the remote insert of the transaction add at position k of the queue read
\* in drain generation ep has started: a TransactionProvider drain waits for
\* it, or it has returned
TxInsertStarted(ep, k) ==
  \/ \E d \in InFlight : d.prov = "tp" /\ d.pc = "call" /\ d.ep = ep /\ d.i = k
  \/ \E c \in calls : c.prov = "tp" /\ c.ep = ep /\ c.idx = k

\* C14: while the remote insert of a queued category (or payment method) add
\* is in flight in DataProvider.syncQueue, the remote insert of no
\* transaction add queued after it has started
C14_CrossKindOrder ==
  \A d \in InFlight :
    (d.prov = "dp" /\ d.pc = "call" /\ d.queue[d.i].type = "add") =>
      \A k \in (d.i + 1)..Len(d.queue) :
        (TxWrite(d.queue[k]) /\ d.queue[k].type = "add") => ~TxInsertStarted(d.ep, k)

\* no two entities of the list share an id
UniqueIds(list) ==
  \A j, k \in 1..Len(list) : list[j].id = list[k].id => j = k

\* C20: in every collection of the Local Store the ids are unique, whatever
\* the clock returned to the adds that made them
C20_UniqueIds ==
  /\ UniqueIds(lsTx)
  /\ UniqueIds(lsD.category)
  /\ UniqueIds(lsD.payment_method)

\* the step is a write called while navigator.onLine is false that ran to
\* its end (the process was not killed in it)
OfflineWriteStep == ops' = ops + 1 /\ ~online /\ restarts' = restarts

\* the step of an offline write made no remote call
NoRemoteCall == calls' = calls /\ rTx' = rTx /\ rD' = rD /\ origin' = origin

\* the persisted Local Store after entry a was applied to it as the offline
\* branches apply their write
Patched(a) ==
  IF TxWrite(a)
    THEN /\ lsD' = lsD
         /\ CASE a.type = "add" ->
                   /\ lsTx' = << a.data >> \o lsTx
                   /\ IsTemp(a.data.id)
                   /\ StripId(a.data) \in TxInputs
              [] a.type = "delete" -> lsTx' = Without(lsTx, a.id)
              [] a.type = "update" -> lsTx' = MapUpdate(lsTx, a.id, a.data)
              [] a.type = "bulkRename" ->
                   lsTx' = MapRename(lsTx, a.field, a.oldValue, a.newValue)
    ELSE /\ lsTx' = lsTx
         /\ \A k \in Kinds \ {a.entity} : lsD'[k] = lsD[k]
         /\ CASE a.type = "add" ->
                   /\ lsD'[a.entity] = Append(lsD[a.entity], a.data)
                   /\ IsTemp(a.data.id)
                   /\ StripId(a.data) \in DataInputs(a.entity)
              [] a.type = "delete" ->
                   /\ lsD'[a.entity] = Without(lsD[a.entity], a.id)
                   /\ \E k \in 1..Len(lsD[a.entity]) : lsD[a.entity][k].id = a.id

\* the step appended exactly one entry to the queue, and the Local Store is
\* patched as that entry says
OneEntryAppended ==
  /\ Len(syncQ') = Len(syncQ) + 1
  /\ SubSeq(syncQ', 1, Len(syncQ)) = syncQ
  /\ Patched(syncQ'[Len(syncQ')])

TpReturn ==
  \/ top.pc = "rfRemote" /\ top' = IdleOp
  \/ \E d \in InFlight : d.prov = "tp" /\ d.pc \in {"call", "rfRemote"}
                         /\ drain' = Take(drain, d)
DpReturn ==
  \/ dop.pc = "rfRemote" /\ dop' = IdleOp
  \/ \E d \in InFlight : d.prov = "dp" /\ d.pc \in {"call", "rfRemote"}
                         /\ drain' = Take(drain, d)

\* C17: a remote call that fails with a connectivity-class error (it throws),
\* in a refresh or in a drain, leaves the provider that made it Offline:
\* isOffline true, and isConnected false in TransactionProvider
C17_DefensiveFallback ==
  [][dropped' = dropped + 1 =>
       /\ TpReturn => (isOffline' /\ ~isConnected')
       /\ DpReturn => dIsOffline']_vars

\* C18: a remote call that fails with a rejection (an error result of the
\* remote store, not a connectivity failure) leaves the connectivity state of
\* both providers as it was
C18_RejectionKeepsConnectivity ==
  [][(fails' = fails + 1 /\ dropped' = dropped) =>
       /\ isConnected' = isConnected
       /\ isOffline' = isOffline
       /\ dIsOffline' = dIsOffline]_vars

\* the step is the return of the remote call of a write called online, and
\* the call failed: the remote store returned an error or the call threw
WriteFailedStep ==
  /\ top.pc = "served"
  /\ top'.pc = "idle"
  /\ top.res # "ok"

\* the step is one in which the remote call of a write called online is
\* rejected by the remote store or fails on its way
WriteRefusedStep ==
  /\ top.pc = "write"
  /\ top'.pc = "served"
  /\ top'.res # "ok"

\* C11: a write called online whose remote call fails is rejected, and the
\* persisted Local Store, the in-memory list and the queue are as before
C11_OnlineWriteRejected ==
  [][/\ WriteFailedStep => top'.settled = "rejected"
     /\ (WriteFailedStep \/ WriteRefusedStep) =>
          /\ lsTx' = lsTx
          /\ pendingTx' = pendingTx
          /\ transactions' = transactions
          /\ syncQ' = syncQ]_vars

\* an online write was rejected by the remote store while the Local Store
\* holds a row of an earlier write
C11_Witness ==
  /\ top = [pc |-> "idle", settled |-> "rejected", error |-> TRUE]
  /\ fails = 1
  /\ dropped = 0
  /\ Len(lsTx) = 1
  /\ ops = 2

\* C19: a transaction write is routed by the exposed connectivity state it
\* is issued in: with isOffline true it is queued and no remote call is
\* issued, with isOffline false a remote call is issued and nothing is queued
C19_RoutingFollowsExposedState ==
  [][ops' = ops + 1 =>
       IF isOffline
         THEN Len(syncQ') = Len(syncQ) + 1 /\ top'.pc # "write"
         ELSE top'.pc = "write" /\ syncQ' = syncQ]_vars

\* the step is the successful return of a refresh called online from the
\* user interface, the call before it in slot op succeeded too, and the
\* remote collection rem is as that call found it
SecondRefresh(op, opAfter, rem) ==
  /\ op.pc = "refresh"
  /\ opAfter.pc = "idle"
  /\ "seen" \in DOMAIN op
  /\ "seen" \in DOMAIN opAfter
  /\ op.seen.remote = rem

\* C13: of two refreshes in a row with the remote store unchanged, the second
\* leaves the in-memory collection and the Local Store with the contents the
\* first left, which are the remote rows and nothing more; for
\* refreshTransactions and for refreshData
C13_IdempotentRefresh ==
  [][/\ SecondRefresh(top, top', rTx) =>
          /\ transactions' = top.seen.memory
          /\ StoreRead(Mem)' = top.seen.store
          /\ Len(transactions') = Len(rTx)
          /\ Len(StoreRead(Mem)') = Len(rTx)
     /\ SecondRefresh(dop, dop', rD) =>
          /\ names' = dop.seen.memory
          /\ lsD' = dop.seen.store
          /\ lsD' = rD]_vars

\* both providers have returned from a second refresh in a row against a
\* remote store that holds rows and did not change
C13_Witness ==
  /\ top.pc = "idle" /\ Refreshes(top) = 2 /\ "seen" \in DOMAIN top
  /\ dop.pc = "idle" /\ Refreshes(dop) = 2 /\ "seen" \in DOMAIN dop
  /\ top.seen.remote = rTx /\ Len(rTx) = 1 /\ transactions = rTx
  /\ dop.seen.remote = rD /\ Len(rD.category) = 1 /\ lsD = rD
  /\ fails = 0

\* the step is one in which the syncQueue invocation d leaves its loop and
\* writes the queue: d moves on to its refresh, or ends with it
DrainWritesQueue(d) ==
  /\ d.pc \in {"call", "end"}
  /\ syncQ' # syncQ
  /\ \/ drain' = Take(drain, d)
     \/ drain' = Take(drain, d) (+) SetToBag({[pc |-> "rfRemote", prov |-> d.prov]})

\* C30: an entry that was enqueued after a running syncQueue read the queue
\* is still in the queue after that syncQueue's clearQueue()
C30_LateEntriesSurvive ==
  [][\A d \in InFlight :
       DrainWritesQueue(d) =>
         \A k \in (Len(d.queue) + 1)..Len(syncQ) :
           \E j \in 1..Len(syncQ') : syncQ'[j] = syncQ[k]]_vars

\* the rows of the remote collection rows that were inserted for the entity
\* of temporary id T
RemoteRowsFrom(rows, T) ==
  {k \in 1..Len(rows) :
     \E n \in 1..Len(origin) : origin[n].temp = T /\ rows[k].id = ServerId(n)}

\* provider prov has replayed, in one drain, an add of the entity of
\* temporary id T and after it the delete of that entity
AddThenDeleteReplayed(prov, T) ==
  \E c, e \in calls :
    /\ c.prov = prov /\ e.prov = prov /\ c.ep = e.ep /\ c.idx < e.idx
    /\ c.entry.type = "add" /\ c.entry.data.id = T
    /\ e.entry.type = "delete" /\ e.entry.id = T
    /\ (prov = "tp") = TxWrite(c.entry)
    /\ (prov = "tp") = TxWrite(e.entry)

\* the temporary ids of the adds that were replayed
ReplayedTemps == {c.entry.data.id : c \in {x \in calls : x.entry.type = "add"}}

\* C29: once the drains and refreshes that followed an offline add and
\* delete of one entity are over, every remote call having succeeded, the
\* entity is neither in the remote store nor in the Local Store
C29_AddThenDeleteOffline ==
  (Settled /\ syncQ = << >> /\ dop.pc = "idle") =>
    \A T \in ReplayedTemps :
      /\ AddThenDeleteReplayed("tp", T) =>
           /\ RemoteRowsFrom(rTx, T) = {}
           /\ RowsFrom(T) = {}
           /\ \A k \in 1..Len(lsTx) : lsTx[k].id # T
      /\ AddThenDeleteReplayed("dp", T) =>
           \A kind \in Kinds :
             /\ RemoteRowsFrom(rD[kind], T) = {}
             /\ RemoteRowsFrom(lsD[kind], T) = {}
             /\ \A k \in 1..Len(lsD[kind]) : lsD[kind][k].id # T

\* the positions of rows that hold the entity a write named by id: the row
\* of that id, or the rows inserted for it when the id is temporary
EntityRows(rows, id) ==
  {k \in 1..Len(rows) : rows[k].id = id} \cup RemoteRowsFrom(rows, id)

\* row carries the field values of the partial payload u
Carries(row, u) == \A f \in DOMAIN u : row[f] = u[f]

\* C26: once the drains and refreshes that followed an offline
\* updateTransaction are over, every remote call having succeeded, the remote
\* entity and the Local Store entity carry the updated values, also when the
\* entity was added in the same offline period
C26_OfflineUpdateReplayed ==
  (Settled /\ syncQ = << >>) =>
    \A e \in calls :
      (e.prov = "tp" /\ TxWrite(e.entry) /\ e.entry.type = "update") =>
        /\ \A k \in EntityRows(rTx, e.entry.id) : Carries(rTx[k], e.entry.data)
        /\ \A k \in EntityRows(lsTx, e.entry.id) : Carries(lsTx[k], e.entry.data)

\* the step is a refresh called from the user interface in slot op while
\* navigator.onLine is false: it is over at once
OfflineRefreshStep(op, opAfter) ==
  /\ ~online
  /\ op.pc = "idle"
  /\ Refreshes(opAfter) = Refreshes(op) + 1

\* C21: a refresh called while navigator.onLine is false issues no remote
\* call, shows the persisted Local Store snapshot and nothing else, and
\* leaves the persisted Local Store and the queue as they are; for
\* refreshTransactions and for refreshData
C21_OfflineRead ==
  [][/\ OfflineRefreshStep(top, top') =>
          /\ top'.pc = "idle"
          /\ NoRemoteCall
          /\ transactions' = StoreRead(Mem)
          /\ << lsTx', pendingTx', lsD', syncQ' >> = << lsTx, pendingTx, lsD, syncQ >>
     /\ OfflineRefreshStep(dop, dop') =>
          /\ dop'.pc = "idle"
          /\ NoRemoteCall
          /\ names' = NamesOf(lsD.category, lsD.payment_method)
          /\ << lsTx', pendingTx', lsD', syncQ' >> = << lsTx, pendingTx, lsD, syncQ >>]_vars

\* both providers have refreshed offline from a Local Store that holds rows
C21_Witness ==
  /\ ~online
  /\ fails = 0
  /\ top.pc = "idle" /\ Refreshes(top) > 0 /\ "seen" \notin DOMAIN top
  /\ dop.pc = "idle" /\ Refreshes(dop) > 0 /\ "seen" \notin DOMAIN dop
  /\ Len(lsTx) = 1 /\ transactions = lsTx
  /\ Len(lsD.category) = 1 /\ names.expense = << lsD.category[1].name >>

\* the step is the successful return of a refreshTransactions called online,
\* on mount or from the user interface: its promise resolves
RefreshResolves ==
  /\ top.pc \in {"rfRemote", "refresh"}
  /\ top'.pc = "idle"
  /\ fails' = fails

\* C22: when an online refreshTransactions resolves, the persisted Local
\* Store holds the rows the select returned and no write of that refresh is
\* still on its way
C22_MirroredBeforeReturn ==
  [][RefreshResolves => (lsTx' = SelectTransactions /\ pendingTx' = << >>)]_vars

\* the step is the return of the select of a refreshTransactions called
\* online (on mount, from the user interface or at the end of a drain), and
\* the select failed
RefreshFails ==
  /\ fails' = fails + 1
  /\ \/ top.pc \in {"rfRemote", "refresh"} /\ top'.pc = "idle"
     \/ \E d \in InFlight : d.prov = "tp" /\ d.pc = "rfRemote" /\ drain' = Take(drain, d)

\* C28: a refreshTransactions whose select fails leaves the persisted Local
\* Store, the in-memory list, the queue and the remote store as they are and
\* sets isConnected false and isOffline true
C28_FailedRefreshKeepsData ==
  [][RefreshFails =>
       /\ << lsTx', pendingTx', lsD', syncQ' >> = << lsTx, pendingTx, lsD, syncQ >>
       /\ transactions' = transactions
       /\ NoRemoteCall
       /\ ~isConnected'
       /\ isOffline']_vars

\* a refresh called from the user interface failed while the list and the
\* Local Store hold the row an earlier refresh mirrored
C28_Witness ==
  /\ online
  /\ fails = 1
  /\ ops = 0
  /\ top.pc = "idle" /\ Refreshes(top) = 1 /\ "seen" \notin DOMAIN top
  /\ isOffline /\ ~isConnected
  /\ Len(transactions) = 1
  /\ lsTx = transactions
  /\ drain = EmptyBag

\* the step belongs to a write called online: the call, the serving of its
\* request, or the return of its remote call
OnlineWriteStep ==
  \/ top.pc = "idle" /\ top'.pc = "write"
  \/ top.pc = "write" /\ top'.pc = "served"
  \/ top.pc = "served" /\ top'.pc = "idle"

\* the step is the return of the remote call of a write called online, and
\* the call succeeded
WriteSucceededStep ==
  /\ top.pc = "served"
  /\ top'.pc = "idle"
  /\ top.res = "ok"

\* how many entities of the list have this id
Copies(list, id) == Cardinality({k \in 1..Len(list) : list[k].id = id})

\* C27: a write called online never changes the queue; after a successful
\* online add the persisted Local Store holds the row the remote store
\* returned exactly once, and after a successful online remove it holds no
\* entity of that id
C27_OnlineWriteMirrored ==
  [][/\ OnlineWriteStep => syncQ' = syncQ
     /\ (WriteSucceededStep /\ top.w.type = "add") =>
          /\ Copies(lsTx', ServerId(top.n)) = 1
          /\ \E k \in 1..Len(lsTx') : lsTx'[k] = Inserted(top.w.data, top.n)
     /\ (WriteSucceededStep /\ top.w.type = "delete") =>
          Copies(lsTx', top.w.id) = 0]_vars

\* the step on which a category or payment-method write returns from a remote
\* call that was rejected or threw
DataWriteFailedStep == dop.pc = "served" /\ dop'.pc = "idle" /\ dop.res # "ok"

\* C23: every write whose remote call is rejected rejects the promise it
\* returned and records the failure in the error field, a transaction write
\* and a category or payment-method write alike
C23_WriteErrorsSurfaced ==
  [][/\ WriteFailedStep => (top'.settled = "rejected" /\ top'.error)
     /\ DataWriteFailedStep => (dop'.settled = "rejected" /\ dop'.error)]_vars

\* the step is one in which the syncQueue invocation d leaves its loop
\* without a throw and calls clearQueue()
DrainClears(d) ==
  /\ d.pc \in {"call", "end"}
  /\ dropped' = dropped
  /\ restarts' = restarts
  /\ \/ drain' = Take(drain, d)
     \/ drain' = Take(drain, d) (+) SetToBag({[pc |-> "rfRemote", prov |-> d.prov]})

\* the syncing flag of the provider of d
SyncingFlag(d) == IF d.prov = "tp" THEN isSyncing ELSE dIsSyncing

\* C24: a drain that clears the queue goes on to a refresh from the remote
\* store, its provider's isSyncing stays true until that refresh is over, and
\* a mount starts a refresh
C24_RefreshFollowsDrain ==
  [][/\ \A d \in InFlight :
          DrainClears(d) =>
            drain' = Take(drain, d) (+) SetToBag({[pc |-> "rfRemote", prov |-> d.prov]})
     /\ \A d \in BagToSet(drain') : d.pc = "rfRemote" => SyncingFlag(d)'
     /\ restarts' # restarts =>
          IF online THEN top'.pc = "rfRemote" /\ dop'.pc = "rfRemote"
          ELSE transactions' = lsTx /\ names' = NamesOf(lsD.category, lsD.payment_method)]_vars

\* every remote call and every localforage call returns, and React runs an
\* effect whose dependencies changed
Returns ==
  \/ \E o \in RefreshOutcomes : TopRefreshRemote(o) /\ UNCHANGED apart
  \/ \E o \in RefreshOutcomes : DopRefreshRemote(o) /\ UNCHANGED apart
  \/ EffectRun /\ UNCHANGED apart
  \/ \E d \in InFlight : DrainClear(d) /\ UNCHANGED apart
  \/ \E d \in InFlight, o \in Outcomes : TpCall(d, o) /\ UNCHANGED apart
  \/ \E d \in InFlight, o \in RefreshOutcomes : TpRefreshRemote(d, o) /\ UNCHANGED apart
  \/ \E d \in InFlight, o \in Outcomes : DpCall(d, o) /\ UNCHANGED apart
  \/ \E d \in InFlight, o \in RefreshOutcomes : DpRefreshRemoteStep(d, o) /\ UNCHANGED apart
  \/ FlushPending /\ UNCHANGED apart

\* the offline-capable providers without restarts, every call returning: one
\* write, made before the first connectivity event, and the 'online' event
\* comes once the mount refresh is over, which keeps the syncQueue
\* invocations in flight within MaxDrains
NextSync ==
  \/ ops + flips = 0 /\ TpWriteOffline /\ UNCHANGED apart
  \/ ops + flips = 0 /\ DpWriteOffline /\ UNCHANGED apart
  \/ top.pc = "idle" /\ OnlineEvent /\ UNCHANGED apart
  \/ OfflineEvent /\ UNCHANGED apart
  \/ Returns

SpecSync == Init /\ [][NextSync]_vars /\ WF_vars(Returns)

\* C25: every syncQueue invocation ends, and when none is left in flight
\* isSyncing is false in both providers, whether the remote calls succeeded
\* or one threw
C25_SyncingTerminates ==
  (drain # EmptyBag) ~> (drain = EmptyBag /\ ~isSyncing /\ ~dIsSyncing)

\* the 'online' event started syncQueue in both providers on a queue of one
\* entry, a remote call threw, and every invocation has ended
C25_Witness ==
  /\ epoch = 1
  /\ ops = 1
  /\ dropped = 1
  /\ calls # {}
  /\ drain = EmptyBag
  /\ ~isSyncing
  /\ ~dIsSyncing

\* C35: in TransactionProvider isConnected is the negation of isOffline in
\* every state
C35_FlagsComplementary == isConnected = ~isOffline

\* a refresh failed while navigator.onLine is true, after an 'offline' and an
\* 'online' event
C35_Witness ==
  /\ online
  /\ flips >= 2
  /\ restarts = 0
  /\ fails = 1
  /\ dropped = 0
  /\ calls = {}
  /\ ~isConnected
  /\ isOffline

\* C34: in each provider isSyncing is true while a syncQueue invocation of
\* that provider is in flight
C34_SyncingReflectsDrains == \A d \in InFlight : SyncingFlag(d)

\* no refresh, write or syncQueue of TransactionProvider is in flight, no
\* write to the Local Store is on its way and no effect is due
TpQuiet ==
  /\ Calm
  /\ top.pc = "idle"
  /\ \A d \in InFlight : d.prov # "tp"

\* C33: whenever no TransactionProvider operation is in flight, the in-memory
\* transactions list equals the persisted 'transactions' collection
C33_SnapshotEqualsStore == TpQuiet => transactions = lsTx

\* the 'add' entries of the persisted queue that carry the identifier id
AddEntries(id) ==
  {k \in 1..Len(syncQ) : syncQ[k].type = "add" /\ syncQ[k].data.id = id}

\* C32: every entity of the Local Store that carries a temporary id has
\* exactly one 'add' entry with that id in the queue, in every state
C32_PendingAddsQueued ==
  /\ \A k \in 1..Len(lsTx) :
       IsTemp(lsTx[k].id) => Cardinality(AddEntries(lsTx[k].id)) = 1
  /\ \A kind \in Kinds : \A k \in 1..Len(lsD[kind]) :
       IsTemp(lsD[kind][k].id) => Cardinality(AddEntries(lsD[kind][k].id)) = 1

\* the step on which the addToQueue of the write in slot op writes the queue
EnqueueDoneStep(op, opAfter) == op.pc = "enqueue" /\ opAfter.pc = "idle"

\* the queue after the step holds every entry it held before, and action
KeepsAndHolds(action) ==
  /\ \A k \in 1..Len(syncQ) : \E j \in 1..Len(syncQ') : syncQ'[j] = syncQ[k]
  /\ \E j \in 1..Len(syncQ') : syncQ'[j] = action

\* C31: an addToQueue that writes the queue keeps every entry the queue
\* holds and adds its own, also when another addToQueue ran between its read
\* and its write
C31_NoLostUpdate ==
  [][/\ EnqueueDoneStep(top, top') => KeepsAndHolds(top.action)
     /\ EnqueueDoneStep(dop, dop') => KeepsAndHolds(dop.action)]_vars

\* nothing is in flight in either provider
AllQuiet ==
  /\ Calm
  /\ drain = EmptyBag
  /\ top.pc = "idle"
  /\ dop.pc = "idle"

\* C36: after a start online with a persisted queue and no connectivity
\* event, once nothing is in flight and no remote call failed, the queue is
\* empty and every entry has been applied to the remote collection of its kind
C36_DrainedAfterRestart ==
  (AllQuiet /\ fails = 0) =>
    /\ syncQ = << >>
    /\ RemoteRowsFrom(rTx, StartTx.id) # {}
    /\ RemoteRowsFrom(rD.category, StartCategory.id) # {}
    /\ RemoteRowsFrom(rD.payment_method, StartPayment.id) # {}

\* C37: with navigator.onLine true throughout and calls awaited one after
\* the other, once nothing is in flight the offline-capable provider has
\* issued the remote calls the online-only provider has, and shows the same
\* transactions list and the same error
C37_RefinesOnlineOnly ==
  AllQuiet =>
    /\ obs.issued = ref.issued
    /\ transactions = ref.transactions
    /\ obs.error = ref.error

\* C38: once logout has returned, isAuthenticated is false, no
\* 'auth_session_token' is stored and isLoading is false, also when the
\* remote delete of the session threw
C38_LogoutLogsOutLocally ==
  (auth.pc = "idle" /\ auth.returned = "logout") =>
    /\ ~auth.isAuthenticated
    /\ auth.token = NoToken
    /\ ~auth.isLoading

\* the tag list of a completed fetchAllData has a tag named 'NoTag'
NoTagListed == page.fetched => NoTagAt(page.budgetTags) # {}
\* no remote delete was issued for a tag named 'NoTag'
NoTagNotDeleted == "NoTag" \notin page.deletes
\* no drag with a tag named 'NoTag' as the dragged or the target item
\* changed tagOrder
NoTagNotMoved == "NoTag" \in page.drag.names => ~page.drag.moved

\* C39: after every completed fetchAllData the tag list has a tag named
\* 'NoTag', handleRemoveBudgetTag issues no remote delete for it, and
\* handleTagDragEnd changes no order when it is the dragged or target item
C39_NoTagProtected == NoTagListed /\ NoTagNotDeleted /\ NoTagNotMoved
====
